---- MODULE Spec2Model ----
(***************************************************************************)
(* Model of jackc/mp (map parser) and of its earlier snapshot package      *)
(* flex.  A Type is a set of named fields, each with an ordered chain of   *)
(* ValueConverters; Type.Parse turns a map[string]any into a Record        *)
(* holding the converted values and the per-field errors.                  *)
(*                                                                         *)
(* Dynamic values (Go's `any`) are records of one shape                    *)
(*     [k |-> kind, s |-> text, n |-> number, e |-> elements]              *)
(* Text is a sequence of one-character strings.  Floating point and        *)
(* decimal numbers are kept in halves (n = 2 * value), which is enough to  *)
(* tell integral from non-integral numbers.                                *)
(***************************************************************************)
EXTENDS Integers, Sequences, FiniteSets, TLC

VARIABLES pc, t, r, todo, calls, ret, fc, ft, fr, ftodo, par, sh

vars == <<pc, t, r, todo, calls, ret, fc, ft, fr, ftodo, par, sh>>

(***************************************************************************)
(* Bounds of the model.                                                    *)
(***************************************************************************)
MaxStrLen == 2
MaxChain == 2
MaxFields == 2
MaxPick == 2
MaxElems == 2
MaxLineLen == 3

(***************************************************************************)
(* Values.  An integer of any width is kept as its decimal text, the way   *)
(* %v writes it: this holds the whole range of int64 and uint64.           *)
(***************************************************************************)
Digits == <<"0", "1", "2", "3", "4", "5", "6", "7", "8", "9">>

RECURSIVE NatText(_)
NatText(n) ==
    IF n < 10 THEN <<Digits[n + 1]>> ELSE NatText(n \div 10) \o <<Digits[(n % 10) + 1]>>

IntText(n) == IF n < 0 THEN <<"-">> \o NatText(0 - n) ELSE NatText(n)

\* A value has a kind k and, by kind, a text s, a number n, elements e or a
\* map m.
Val(k, s, n, e) == [k |-> k, s |-> s, n |-> n, e |-> e, m |-> <<>>]

Nil == Val("nil", <<>>, 0, <<>>)
Str(s) == Val("string", s, 0, <<>>)
WideV(k, text) == Val(k, text, 0, <<>>)
IntV(n) == WideV("int", IntText(n))
Int32V(n) == WideV("int32", IntText(n))
Int64V(n) == WideV("int64", IntText(n))
Float32V(h) == Val("float32", <<>>, h, <<>>)
Float64V(h) == Val("float64", <<>>, h, <<>>)
DecimalV(h) == Val("decimal", <<>>, h, <<>>)
BoolV(b) == Val("bool", <<>>, IF b THEN 1 ELSE 0, <<>>)
BytesV(len) == Val("bytes", <<>>, len, <<>>)
TimeV(month) == Val("time", <<>>, month, <<>>)
UUIDV(s) == Val("uuid", s, 0, <<>>)
SliceV(k, e) == Val(k, <<>>, 0, e)
\* map[string]any
MapV(kv) == [Val("map", <<>>, 0, <<>>) EXCEPT !.m = kv]
\* *Record
RecordV(rec) == [Val("*Record", <<>>, 0, <<>>) EXCEPT !.m = rec]
UndefinedValue == Val("undefined", <<"u", "n", "d", "e", "f", "i", "n", "e", "d", " ", "v", "a", "l", "u", "e">>, 0, <<>>)

(***************************************************************************)
(* Errors.  NoErr is Go's nil error.                                       *)
(* An error is a record [k, msg, m]: a plain error with a message, or an    *)
(* Errors value with its map from field name to error.                     *)
ErrVal(k, msg, m) == [k |-> k, msg |-> msg, m |-> m, l |-> <<>>]

NoErr == ErrVal("nil", "", <<>>)
Err(msg) == ErrVal("error", msg, <<>>)
ErrorsV(m) == ErrVal("Errors", "", m)
sliceElementError(Index, err) == [Index |-> Index, Err |-> err]
sliceElementErrors(l) == [ErrVal("sliceElementErrors", "", <<>>) EXCEPT !.l = l]

Res(v, err) == [v |-> v, err |-> err]

(***************************************************************************)
(* Text helpers: the parts of package strings, strconv and fmt that the    *)
(* converters call.                                                        *)
(***************************************************************************)
IsDigit(c) == \E i \in 1..10 : Digits[i] = c

DigitVal(c) == (CHOOSE i \in 1..10 : Digits[i] = c) - 1

IsSpace(c) == c \in {" ", "\t", "\n", "\r"}

\* The characters of a text stand for classes: "xFE" is a byte that is no
\* valid UTF-8, "u200B" the zero-width space, which is neither printable nor
\* white space; the tab is white space that is not printable.
IsPrint(c) == c \notin {"\t", "\n", "\r", "u200B", "xFE"}

\* strings.ToValidUTF8(s, "")
ToValidUTF8(s) == SelectSeq(s, LAMBDA c : c # "xFE")

RECURSIVE TrimLeft(_)
TrimLeft(s) ==
    IF s # <<>> /\ IsSpace(Head(s)) THEN TrimLeft(Tail(s)) ELSE s

RECURSIVE TrimRight(_)
TrimRight(s) ==
    IF s # <<>> /\ IsSpace(s[Len(s)]) THEN TrimRight(SubSeq(s, 1, Len(s) - 1)) ELSE s

TrimSpace(s) == TrimRight(TrimLeft(s))

AllDigits(s) == s # <<>> /\ \A i \in 1..Len(s) : IsDigit(s[i])

RECURSIVE DigitsVal(_)
DigitsVal(s) ==
    IF s = <<>> THEN 0 ELSE 10 * DigitsVal(SubSeq(s, 1, Len(s) - 1)) + DigitVal(s[Len(s)])

\* A number kept in halves, written the way %v and Decimal.String write it.
HalvesText(h) ==
    LET a == IF h < 0 THEN 0 - h ELSE h
        sign == IF h < 0 THEN <<"-">> ELSE <<>>
    IN  sign \o NatText(a \div 2) \o (IF a % 2 = 1 THEN <<".", "5">> ELSE <<>>)

Unsigned(s) == IF s # <<>> /\ Head(s) \in {"+", "-"} THEN Tail(s) ELSE s

Signed(s, n) == IF s # <<>> /\ Head(s) = "-" THEN 0 - n ELSE n

\* The number a short decimal text denotes.
IntOf(x) == Signed(x, DigitsVal(Unsigned(x)))

RECURSIVE StripZeros(_)
StripZeros(d) == IF Len(d) > 1 /\ Head(d) = "0" THEN StripZeros(Tail(d)) ELSE d

\* The decimal text of the integer that the signed digits s denote.
Canon(s) ==
    IF s # <<>> /\ Head(s) = "-" /\ StripZeros(Unsigned(s)) # <<"0">>
    THEN <<"-">> \o StripZeros(Unsigned(s))
    ELSE StripZeros(Unsigned(s))

IsNeg(x) == x # <<>> /\ Head(x) = "-"

MagLess(a, b) ==
    \/ Len(a) < Len(b)
    \/ /\ Len(a) = Len(b)
       /\ \E i \in 1..Len(a) :
            /\ \A j \in 1..(i - 1) : a[j] = b[j]
            /\ DigitVal(a[i]) < DigitVal(b[i])

\* x < y for integers kept as decimal text.
Less(x, y) ==
    IF IsNeg(x)
    THEN IF IsNeg(y) THEN MagLess(Tail(y), Tail(x)) ELSE TRUE
    ELSE IF IsNeg(y) THEN FALSE ELSE MagLess(x, y)

MaxInt64 == <<"9", "2", "2", "3", "3", "7", "2", "0", "3", "6", "8", "5", "4", "7", "7", "5", "8", "0", "7">>
MinInt64 == <<"-", "9", "2", "2", "3", "3", "7", "2", "0", "3", "6", "8", "5", "4", "7", "7", "5", "8", "0", "8">>

\* strconv.ParseInt(s, 10, 64): an optional sign and decimal digits; a number
\* that does not fit int64 is an error too (ErrRange).
ParseInt(s) ==
    IF AllDigits(Unsigned(s)) /\ ~Less(MaxInt64, Canon(s)) /\ ~Less(Canon(s), MinInt64)
    THEN [ok |-> TRUE, n |-> Canon(s)]
    ELSE [ok |-> FALSE, n |-> <<"0">>]

DotAt(s) == IF \E i \in 1..Len(s) : s[i] = "." THEN CHOOSE i \in 1..Len(s) : s[i] = "." ELSE 0

\* The decimal syntax shared by strconv.ParseFloat and decimal.NewFromString:
\* an optional sign, digits and at most one point.  The result is in halves.
ParseHalves(s) ==
    LET u == Unsigned(s)
        d == DotAt(u)
        ip == IF d = 0 THEN u ELSE SubSeq(u, 1, d - 1)
        fp == IF d = 0 THEN <<>> ELSE SubSeq(u, d + 1, Len(u))
        wellFormed == /\ ip \o fp # <<>>
                      /\ \A i \in 1..Len(ip) : IsDigit(ip[i])
                      /\ \A i \in 1..Len(fp) : IsDigit(fp[i])
        half == IF fp # <<>> /\ DigitVal(fp[1]) >= 5 THEN 1 ELSE 0
    IN  IF wellFormed
        THEN [ok |-> TRUE, n |-> Signed(s, 2 * DigitsVal(ip) + half)]
        ELSE [ok |-> FALSE, n |-> 0]

ParseFloat(s) == ParseHalves(s)

NewFromString(s) == ParseHalves(s)

\* strconv.ParseBool
ParseBool(s) ==
    IF s \in {<<"1">>, <<"t">>, <<"T">>, <<"t", "r", "u", "e">>, <<"T", "R", "U", "E">>, <<"T", "r", "u", "e">>}
    THEN [ok |-> TRUE, b |-> TRUE]
    ELSE IF s \in {<<"0">>, <<"f">>, <<"F">>, <<"f", "a", "l", "s", "e">>, <<"F", "A", "L", "S", "E">>, <<"F", "a", "l", "s", "e">>}
         THEN [ok |-> TRUE, b |-> FALSE]
         ELSE [ok |-> FALSE, b |-> FALSE]

IsHex(c) == IsDigit(c) \/ c \in {"a", "b", "c", "d", "e", "f", "A", "B", "C", "D", "E", "F"}

\* The canonical and the hash-like text forms accepted by uuid.FromString.
IsUUIDText(s) ==
    \/ /\ Len(s) = 36
       /\ \A i \in 1..36 : IF i \in {9, 14, 19, 24} THEN s[i] = "-" ELSE IsHex(s[i])
    \/ /\ Len(s) = 32
       /\ \A i \in 1..32 : IsHex(s[i])

CanonicalUUID(s) ==
    IF Len(s) = 36 THEN s
    ELSE SubSeq(s, 1, 8) \o <<"-">> \o SubSeq(s, 9, 12) \o <<"-">> \o SubSeq(s, 13, 16)
         \o <<"-">> \o SubSeq(s, 17, 20) \o <<"-">> \o SubSeq(s, 21, 32)

UUIDOf(c) == [i \in 1..36 |-> IF i \in {9, 14, 19, 24} THEN "-" ELSE c]

ZeroUUID == UUIDV(UUIDOf("0"))

\* uuid.FromString
FromString(s) ==
    IF IsUUIDText(s) THEN Res(UUIDV(CanonicalUUID(s)), NoErr)
    ELSE Res(ZeroUUID, Err("uuid: incorrect UUID format"))

\* uuid.FromBytes
FromBytes(b) ==
    IF b.n = 16 THEN Res(ZeroUUID, NoErr)
    ELSE Res(ZeroUUID, Err("uuid: UUID must be exactly 16 bytes long"))

TwoDigits(n) == <<Digits[(n \div 10) + 1], Digits[(n % 10) + 1]>>

RECURSIVE ByteList(_)
ByteList(len) ==
    IF len = 0 THEN <<>> ELSE IF len = 1 THEN <<"0">> ELSE ByteList(len - 1) \o <<" ", "0">>

IntKinds == {"int8", "uint8", "int16", "uint16", "int32", "uint32", "int64", "uint64", "int", "uint"}

\* fmt.Sprint / fmt.Sprintf("%v", value)
Sprint(value) ==
    CASE value.k = "string" -> value.s
      [] value.k = "undefined" -> value.s
      [] value.k = "uuid" -> value.s
      [] value.k \in IntKinds -> value.s
      [] value.k \in {"float32", "float64", "decimal"} -> HalvesText(value.n)
      [] value.k = "bool" -> IF value.n = 1 THEN <<"t", "r", "u", "e">> ELSE <<"f", "a", "l", "s", "e">>
      [] value.k = "bytes" -> <<"[">> \o ByteList(value.n) \o <<"]">>
      [] value.k = "time" -> <<"0", "0", "0", "0", "-">> \o TwoDigits(value.n)
                             \o <<"-", "0", "1", " ", "0", "0", ":", "0", "0", ":", "0", "0", " ",
                                  "+", "0", "0", "0", "0", " ", "U", "T", "C">>
      [] OTHER -> <<"<", "n", "i", "l", ">">>

(***************************************************************************)
(* Package mp: the converters.                                             *)
(***************************************************************************)
MaxInt32 == <<"2", "1", "4", "7", "4", "8", "3", "6", "4", "7">>
MinInt32 == <<"-", "2", "1", "4", "7", "4", "8", "3", "6", "4", "8">>

\* normalizeForParsing without the trimming.
normalizeNoTrim(value) ==
    IF value.k = "string" THEN IF value.s = <<>> THEN Nil ELSE value ELSE value

normalizeForParsing(value) ==
    IF value.k = "string"
    THEN IF TrimSpace(value.s) = <<>> THEN Nil ELSE Str(TrimSpace(value.s))
    ELSE value

\* The result is [n, err]; n is the int64, as decimal text.  For a float the
\* comparisons against math.MinInt64 and math.MaxInt64 cannot be taken by the
\* bounded inputs.
convertInt64(value) ==
    IF value.k \in {"uint64", "uint"}
    THEN IF Less(MaxInt64, value.s) THEN [n |-> <<"0">>, err |-> Err("greater than maximum allowed number")]
         ELSE [n |-> value.s, err |-> NoErr]
    ELSE IF value.k \in IntKinds THEN [n |-> value.s, err |-> NoErr]
    ELSE IF value.k \in {"float32", "float64"}
         THEN IF value.n % 2 # 0 THEN [n |-> <<"0">>, err |-> Err("not a valid number")]
              ELSE [n |-> IntText(value.n \div 2), err |-> NoErr]
         ELSE CHOOSE out \in
                  {IF ~num.ok THEN [n |-> <<"0">>, err |-> Err("not a valid number")]
                   ELSE [n |-> num.n, err |-> NoErr] :
                   num \in {ParseInt(TrimSpace(Sprint(value)))}} : TRUE

convertInt32(value) ==
    CHOOSE out \in
        {IF c.err # NoErr THEN [n |-> <<"0">>, err |-> c.err]
         ELSE IF Less(c.n, MinInt32) THEN [n |-> <<"0">>, err |-> Err("less than minimum allowed number")]
         ELSE IF Less(MaxInt32, c.n) THEN [n |-> <<"0">>, err |-> Err("greater than maximum allowed number")]
         ELSE [n |-> c.n, err |-> NoErr] :
         c \in {convertInt64(value)}} : TRUE

\* The result is in halves.
convertFloat64(value) ==
    IF value.k \in IntKinds THEN [n |-> 2 * IntOf(value.s), err |-> NoErr]
    ELSE IF value.k \in {"float32", "float64"} THEN [n |-> value.n, err |-> NoErr]
    ELSE CHOOSE out \in
             {IF ~num.ok THEN [n |-> 0, err |-> Err("not a valid number")]
              ELSE [n |-> num.n, err |-> NoErr] :
              num \in {ParseFloat(TrimSpace(Sprint(value)))}} : TRUE

\* The comparisons against math.MaxFloat32 cannot be taken by the bounded inputs.
convertFloat32(value) ==
    CHOOSE out \in
        {IF c.err # NoErr THEN [n |-> 0, err |-> c.err] ELSE [n |-> c.n, err |-> NoErr] :
         c \in {convertFloat64(value)}} : TRUE

convertDecimal(value) ==
    IF value.k = "decimal" THEN [n |-> value.n, err |-> NoErr]
    ELSE IF value.k \in {"int64", "int", "int32"} THEN [n |-> 2 * IntOf(value.s), err |-> NoErr]
    ELSE IF value.k \in {"float32", "float64"} THEN [n |-> value.n, err |-> NoErr]
    ELSE CHOOSE out \in
             {IF ~num.ok THEN [n |-> 0, err |-> Err("can't convert to decimal")]
              ELSE [n |-> num.n, err |-> NoErr] :
              num \in {NewFromString(TrimSpace(Sprint(value)))}} : TRUE

int64ValueConverter(value) ==
    CHOOSE out \in
        {IF nv = Nil THEN Res(Nil, NoErr)
         ELSE CHOOSE res \in
                  {IF c.err # NoErr THEN Res(Nil, c.err)
                   ELSE Res(WideV("int64", c.n), NoErr) :
                   c \in {convertInt64(nv)}} : TRUE :
         nv \in {normalizeForParsing(value)}} : TRUE

int32ValueConverter(value) ==
    CHOOSE out \in
        {IF nv = Nil THEN Res(Nil, NoErr)
         ELSE CHOOSE res \in
                  {IF c.err # NoErr THEN Res(Nil, c.err)
                   ELSE Res(WideV("int32", c.n), NoErr) :
                   c \in {convertInt32(nv)}} : TRUE :
         nv \in {normalizeForParsing(value)}} : TRUE

float64ValueConverter(value) ==
    CHOOSE out \in
        {IF nv = Nil THEN Res(nv, NoErr)
         ELSE CHOOSE res \in
                  {IF c.err # NoErr THEN Res(Nil, c.err)
                   ELSE Res(Float64V(c.n), NoErr) :
                   c \in {convertFloat64(nv)}} : TRUE :
         nv \in {normalizeForParsing(value)}} : TRUE

float32ValueConverter(value) ==
    CHOOSE out \in
        {IF nv = Nil THEN Res(nv, NoErr)
         ELSE CHOOSE res \in
                  {IF c.err # NoErr THEN Res(Nil, c.err)
                   ELSE Res(Float32V(c.n), NoErr) :
                   c \in {convertFloat32(nv)}} : TRUE :
         nv \in {normalizeForParsing(value)}} : TRUE

boolValueConverter(value) ==
    CHOOSE out \in
        {IF nv = Nil THEN Res(Nil, NoErr)
         ELSE IF nv.k = "bool" THEN Res(nv, NoErr)
         ELSE IF nv.k = "string"
              THEN CHOOSE res \in
                       {IF ~b.ok THEN Res(Nil, Err("strconv.ParseBool: invalid syntax"))
                        ELSE Res(BoolV(b.b), NoErr) :
                        b \in {ParseBool(TrimSpace(nv.s))}} : TRUE
              ELSE Res(Nil, Err("not a valid boolean")) :
         nv \in {normalizeForParsing(value)}} : TRUE

\* The layouts the modelled Time converter is built with: a literal layout
\* and the month-number layout.
TimeFormats == <<<<"a">>, <<"1">>>>

\* time.Parse for the layouts of TimeFormats.  The layout "1" reads a month
\* number of one or two digits; any other layout here is literal text.
timeParse(format, value) ==
    IF format = <<"1">>
    THEN LET two == Len(value) >= 2 /\ IsDigit(value[1]) /\ IsDigit(value[2])
             num == IF two THEN SubSeq(value, 1, 2) ELSE SubSeq(value, 1, 1)
         IN  IF value # <<>> /\ IsDigit(value[1]) /\ Len(value) = Len(num)
                /\ DigitsVal(num) >= 1 /\ DigitsVal(num) <= 12
             THEN [ok |-> TRUE, month |-> DigitsVal(num)]
             ELSE [ok |-> FALSE, month |-> 0]
    ELSE IF value = format THEN [ok |-> TRUE, month |-> 1] ELSE [ok |-> FALSE, month |-> 0]

timeValueConverter(formats, value) ==
    CHOOSE out \in
        {IF nv = Nil THEN Res(Nil, NoErr)
         ELSE IF nv.k = "time" THEN Res(nv, NoErr)
         ELSE IF nv.k # "string" THEN Res(Nil, Err("not a valid time"))
         ELSE CHOOSE res \in
                  {IF hits = {} THEN Res(Nil, Err("not a valid time"))
                   ELSE Res(TimeV(timeParse(formats[CHOOSE i \in hits : \A j \in hits : i <= j], nv.s).month), NoErr) :
                   hits \in {{i \in 1..Len(formats) : timeParse(formats[i], nv.s).ok}}} : TRUE :
         nv \in {normalizeForParsing(value)}} : TRUE

uuidValueConverter(value) ==
    CHOOSE out \in
        {IF nv = Nil THEN Res(Nil, NoErr)
         ELSE IF nv.k = "bytes" THEN FromBytes(nv)
         ELSE FromString(Sprint(nv)) :
         nv \in {normalizeForParsing(value)}} : TRUE

decimalValueConverter(value) ==
    CHOOSE out \in
        {IF nv = Nil THEN Res(Nil, NoErr)
         ELSE CHOOSE res \in
                  {IF c.err # NoErr THEN Res(Nil, c.err)
                   ELSE Res(DecimalV(c.n), NoErr) :
                   c \in {convertDecimal(nv)}} : TRUE :
         nv \in {normalizeForParsing(value)}} : TRUE

\* SingleLineString that trims before it replaces.
singleLineTrimFirst(value) ==
    IF value = Nil THEN Res(Nil, NoErr)
    ELSE IF value.k = "string"
         THEN Res(Str([i \in 1..Len(TrimSpace(ToValidUTF8(value.s))) |->
                          IF IsPrint(TrimSpace(ToValidUTF8(value.s))[i])
                          THEN TrimSpace(ToValidUTF8(value.s))[i] ELSE " "]), NoErr)
         ELSE Res(Nil, Err("not a string"))

singleLineStringValueConverter(value) ==
    IF value = Nil THEN Res(Nil, NoErr)
    ELSE IF value.k = "string"
         THEN Res(Str(TrimSpace([i \in 1..Len(ToValidUTF8(value.s)) |->
                                    IF IsPrint(ToValidUTF8(value.s)[i])
                                    THEN ToValidUTF8(value.s)[i] ELSE " "])), NoErr)
         ELSE Res(Nil, Err("not a string"))

notNilValueConverter(value) ==
    IF value = Nil THEN Res(Nil, Err("cannot be nil")) ELSE Res(value, NoErr)

\* Require that rejects nil only.
requireNilOnly(value) ==
    IF value = Nil THEN Res(Nil, Err("cannot be nil or empty")) ELSE Res(value, NoErr)

requireValueConverter(value) ==
    IF value = Nil \/ value = Str(<<>>) THEN Res(Nil, Err("cannot be nil or empty"))
    ELSE Res(value, NoErr)

ParsingConverters == {"Int64", "Int32", "Float64", "Float32", "Bool", "Decimal", "Time", "UUID"}

Converters == ParsingConverters \cup {"Require", "NotNil"}

RECURSIVE ConvertValue(_, _)

Call(vc, arg, res) == [vc |-> vc, arg |-> arg, v |-> res.v, err |-> res.err]

\* convertSlice without the break: the converters after a failing one run too.
RECURSIVE convertSliceNoBreak(_, _, _, _)
convertSliceNoBreak(converters, i, v, log) ==
    IF i > Len(converters)
    THEN [v |-> v, err |-> IF log = <<>> THEN NoErr ELSE log[Len(log)].err, calls |-> log]
    ELSE CHOOSE out \in
             {convertSliceNoBreak(converters, i + 1, res.v, Append(log, Call(converters[i], v, res))) :
              res \in {ConvertValue(converters[i], v)}} : TRUE

\* convertSlice, with the list of the calls it makes.  res is the pair
\* returned by the one call of converters[i].ConvertValue(v).
RECURSIVE convertSliceFrom(_, _, _, _)
convertSliceFrom(converters, i, v, log) ==
    IF i > Len(converters) THEN [v |-> v, err |-> NoErr, calls |-> log]
    ELSE CHOOSE out \in
             {IF res.err # NoErr
              THEN [v |-> res.v, err |-> res.err, calls |-> Append(log, Call(converters[i], v, res))]
              ELSE convertSliceFrom(converters, i + 1, res.v, Append(log, Call(converters[i], v, res))) :
              res \in {ConvertValue(converters[i], v)}} : TRUE

convertSlice(value, converters) == convertSliceFrom(converters, 1, value, <<>>)

\* An IfNotNil that runs its converters on nil too.
IfNotNilAlways(converters, value) == convertSlice(value, converters)

\* IfNotNil(converters...).ConvertValue(value)
IfNotNil(converters, value) ==
    IF value = Nil THEN [v |-> value, err |-> NoErr, calls |-> <<>>]
    ELSE convertSlice(value, converters)

(***************************************************************************)
(* Package mp: Field, Type and Record.                                     *)
(***************************************************************************)
Names == {"a", "b"}

NoVals == [x \in {} |-> Nil]
NoErrs == [x \in {} |-> NoErr]
NoCalls == [x \in {} |-> <<>>]

\* A Go map[string]any: a nil map reads like an empty one.
NilMap == [isnil |-> TRUE, kv |-> NoVals]
MapOf(kv) == [isnil |-> FALSE, kv |-> kv]
Index(m, key) == IF key \in DOMAIN m.kv THEN m.kv[key] ELSE Nil

SeqsUpTo(S, n) == UNION {[1..k -> S] : k \in 0..n}

NewField(name, valueConverters) == [name |-> name, valueConverters |-> valueConverters]

\* StandardField.ConvertValue
FieldConvertValue(f, value) == convertSlice(value, f.valueConverters)

LastIndex(fields, name) ==
    CHOOSE i \in 1..Len(fields) :
        /\ fields[i].name = name
        /\ \A j \in 1..Len(fields) : fields[j].name = name => j <= i

\* A NewType that keeps the first field of a name.
NewTypeFirstWins(fields) ==
    [fields |-> fields,
     fieldsByName |-> [name \in {fields[i].name : i \in 1..Len(fields)} |->
                          fields[CHOOSE i \in 1..Len(fields) :
                                     /\ fields[i].name = name
                                     /\ \A j \in 1..(i - 1) : fields[j].name # name]]]

NewType(fields) ==
    [fields |-> fields,
     fieldsByName |-> [name \in {fields[i].name : i \in 1..Len(fields)} |-> fields[LastIndex(fields, name)]]]

NoType == NewType(<<>>)

NewRecord(attrs) == [original |-> attrs, converted |-> NoVals, errors |-> NoErrs]

NoRecord == NewRecord(NilMap)

\* A loop body that stores the value of a failing field as well.
ParseStepKeepValue(rec, f, attrs) ==
    LET c == FieldConvertValue(f, Index(attrs, f.name))
    IN  IF c.err = NoErr
        THEN [rec EXCEPT !.converted = (f.name :> c.v) @@ rec.converted]
        ELSE [rec EXCEPT !.converted = (f.name :> c.v) @@ rec.converted,
                         !.errors = (f.name :> c.err) @@ rec.errors]

\* A loop body that leaves out a field whose key is absent from the input.
ParseStepSkipAbsent(rec, f, attrs) ==
    LET c == FieldConvertValue(f, Index(attrs, f.name))
    IN  IF c.err = NoErr
        THEN IF f.name \in DOMAIN attrs.kv
             THEN [rec EXCEPT !.converted = (f.name :> c.v) @@ rec.converted]
             ELSE rec
        ELSE [rec EXCEPT !.errors = (f.name :> c.err) @@ rec.errors]

\* A loop body that drops a field visited after another field has failed.
ParseStepAfterError(rec, f, attrs) ==
    LET c == FieldConvertValue(f, Index(attrs, f.name))
    IN  IF DOMAIN rec.errors # {} THEN [rec EXCEPT !.errors = (f.name :> Err("skipped")) @@ rec.errors]
        ELSE IF c.err = NoErr
        THEN [rec EXCEPT !.converted = (f.name :> c.v) @@ rec.converted]
        ELSE [rec EXCEPT !.errors = (f.name :> c.err) @@ rec.errors]

\* The body of the loop of Type.Parse for one field.
ParseStep(rec, f, attrs) ==
    CHOOSE out \in
        {IF c.err = NoErr
         THEN [rec EXCEPT !.converted = (f.name :> c.v) @@ rec.converted]
         ELSE [rec EXCEPT !.errors = (f.name :> c.err) @@ rec.errors] :
         c \in {FieldConvertValue(f, Index(attrs, f.name))}} : TRUE

\* What a call on a Record gave back: a panic with its message, or the
\* returned value v, map m or error err.
Ret(op, keys, panicked, msg, v, m) ==
    [op |-> op, keys |-> keys, panicked |-> panicked, msg |-> msg, v |-> v, m |-> m, err |-> NoErr]

NoRet == Ret("none", <<>>, FALSE, "", Nil, NoVals)

NotAField(s) == "\"" \o s \o "\" is not a field of type"

\* Get without the check of the field name.
RecordGetUnchecked(typ, rec, s) ==
    Ret("Get", <<s>>, FALSE, "", IF s \in DOMAIN rec.converted THEN rec.converted[s] ELSE Nil, NoVals)

\* Record.Get
RecordGet(typ, rec, s) ==
    IF s \notin DOMAIN typ.fieldsByName
    THEN Ret("Get", <<s>>, TRUE, NotAField(s), Nil, NoVals)
    ELSE Ret("Get", <<s>>, FALSE, "",
             IF s \in DOMAIN rec.converted THEN rec.converted[s] ELSE Nil, NoVals)

\* Pick that stores every key, with nil for a key that has no converted value.
RECURSIVE PickFromAllKeys(_, _, _, _, _)
PickFromAllKeys(typ, rec, keys, i, m) ==
    IF i > Len(keys) THEN Ret("Pick", keys, FALSE, "", Nil, m)
    ELSE IF keys[i] \notin DOMAIN typ.fieldsByName
         THEN Ret("Pick", keys, TRUE, NotAField(keys[i]), Nil, NoVals)
         ELSE PickFromAllKeys(typ, rec, keys, i + 1,
                              (keys[i] :> IF keys[i] \in DOMAIN rec.converted
                                          THEN rec.converted[keys[i]] ELSE Nil) @@ m)

\* Record.Pick: the loop over keys from position i with the map m built so far.
RECURSIVE PickFrom(_, _, _, _, _)
PickFrom(typ, rec, keys, i, m) ==
    IF i > Len(keys) THEN Ret("Pick", keys, FALSE, "", Nil, m)
    ELSE IF keys[i] \notin DOMAIN typ.fieldsByName
         THEN Ret("Pick", keys, TRUE, NotAField(keys[i]), Nil, NoVals)
         ELSE PickFrom(typ, rec, keys, i + 1,
                       IF keys[i] \in DOMAIN rec.converted
                       THEN (keys[i] :> rec.converted[keys[i]]) @@ m
                       ELSE m)

RecordPick(typ, rec, keys) == PickFrom(typ, rec, keys, 1, NoVals)

\* Errors that returns the map even when it is empty.
RecordErrorsAlways(rec) == ErrorsV(rec.errors)

\* Record.Errors
RecordErrors(rec) ==
    IF Cardinality(DOMAIN rec.errors) = 0 THEN NoErr ELSE ErrorsV(rec.errors)

\* Record.Attrs
RecordAttrs(rec) == rec.converted

\* Type.Parse as one call: the loop body for every field of fieldsByName, in
\* the order the map iteration happens to take.
RECURSIVE ParseFrom(_, _, _)
ParseFrom(typ, rec, names) ==
    IF names = {} THEN rec
    ELSE CHOOSE out \in
             {ParseFrom(typ, ParseStep(rec, typ.fieldsByName[name], rec.original), names \ {name}) :
              name \in {CHOOSE n \in names : TRUE}} : TRUE

TypeParse(typ, m) == ParseFrom(typ, NewRecord(m), DOMAIN typ.fieldsByName)

\* Type.ConvertValue that returns the record whether or not it has errors.
TypeConvertValueKeepRecord(typ, v) ==
    IF v = Nil THEN Res(Nil, NoErr)
    ELSE IF v.k = "map" THEN Res(RecordV(TypeParse(typ, MapOf(v.m))), NoErr)
    ELSE Res(Nil, Err("cannot convert to record"))

\* Type.ConvertValue
TypeConvertValue(typ, v) ==
    IF v = Nil THEN Res(Nil, NoErr)
    ELSE IF v.k = "map"
         THEN CHOOSE out \in
                  {IF RecordErrors(record) # NoErr THEN Res(Nil, RecordErrors(record))
                   ELSE Res(RecordV(record), NoErr) :
                   record \in {TypeParse(typ, MapOf(v.m))}} : TRUE
         ELSE Res(Nil, Err("cannot convert to record"))

\* element.(T)
IsT(T, element) == element.k = T

\* The zero value that make([]T, n) fills the slice with.
Zero(T) == IF T = "int32" THEN Int32V(0) ELSE Nil

\* A loop of Slice that returns at the first element that fails.
RECURSIVE SliceLoopBreak(_, _, _, _, _, _, _)
SliceLoopBreak(T, elementConverter, value, i, ts, elErrs, log) ==
    IF i > Len(value) \/ elErrs # <<>> THEN [ts |-> ts, elErrs |-> elErrs, calls |-> log]
    ELSE CHOOSE out \in
             {SliceLoopBreak(T, elementConverter, value, i + 1,
                             Append(ts, IF IsT(T, res.v) THEN res.v ELSE Zero(T)),
                             IF res.err # NoErr \/ ~IsT(T, res.v)
                             THEN <<sliceElementError(i - 1, res.err)>> ELSE <<>>,
                             Append(log, Call(elementConverter, value[i], res))) :
              res \in {ConvertValue(elementConverter, value[i])}} : TRUE

\* The loop of Slice over the elements of a []any, with the list of the calls
\* it makes.  Element i of the model is element i - 1 of the Go slice.
RECURSIVE SliceLoop(_, _, _, _, _, _, _)
SliceLoop(T, elementConverter, value, i, ts, elErrs, log) ==
    IF i > Len(value) THEN [ts |-> ts, elErrs |-> elErrs, calls |-> log]
    ELSE CHOOSE out \in
             {SliceLoop(T, elementConverter, value, i + 1,
                        Append(ts, IF IsT(T, res.v) THEN res.v ELSE Zero(T)),
                        elErrs \o (IF res.err # NoErr THEN <<sliceElementError(i - 1, res.err)>> ELSE <<>>)
                               \o (IF IsT(T, res.v) THEN <<>> ELSE <<sliceElementError(i - 1, res.err)>>),
                        Append(log, Call(elementConverter, value[i], res))) :
              res \in {ConvertValue(elementConverter, value[i])}} : TRUE

\* Slice without the case of a value that is a []T already.
SliceOnlyAny(T, elementConverter, value) ==
    IF value = Nil THEN Res(Nil, NoErr)
    ELSE IF value.k = "[]any"
         THEN CHOOSE out \in
                  {IF loop.elErrs # <<>> THEN Res(Nil, sliceElementErrors(loop.elErrs))
                   ELSE Res(SliceV("[]" \o T, loop.ts), NoErr) :
                   loop \in {SliceLoop(T, elementConverter, value.e, 1, <<>>, <<>>, <<>>)}} : TRUE
         ELSE Res(Nil, Err("cannot convert to slice"))

\* Slice[T](elementConverter)
Slice(T, elementConverter, value) ==
    IF value = Nil THEN Res(Nil, NoErr)
    ELSE IF value.k = "[]" \o T THEN Res(value, NoErr)
    ELSE IF value.k = "[]any"
         THEN CHOOSE out \in
                  {IF loop.elErrs # <<>> THEN Res(Nil, sliceElementErrors(loop.elErrs))
                   ELSE Res(SliceV("[]" \o T, loop.ts), NoErr) :
                   loop \in {SliceLoop(T, elementConverter, value.e, 1, <<>>, <<>>, <<>>)}} : TRUE
         ELSE Res(Nil, Err("cannot convert to slice"))

\* The Type that the nested converters are built on.
ChildType == NewType(<<NewField("n", <<"Int32", "Require">>)>>)

\* ValueConverter.ConvertValue: the dispatch on the converter's dynamic type.
ConvertValue(vc, value) ==
    CASE vc = "Int64" -> int64ValueConverter(value)
      [] vc = "Int32" -> int32ValueConverter(value)
      [] vc = "Float64" -> float64ValueConverter(value)
      [] vc = "Float32" -> float32ValueConverter(value)
      [] vc = "Bool" -> boolValueConverter(value)
      [] vc = "Decimal" -> decimalValueConverter(value)
      [] vc = "Time" -> timeValueConverter(TimeFormats, value)
      [] vc = "UUID" -> uuidValueConverter(value)
      [] vc = "NotNil" -> notNilValueConverter(value)
      [] vc = "Require" -> requireValueConverter(value)
      [] vc = "SingleLineString" -> singleLineStringValueConverter(value)
      [] vc = "Child" -> TypeConvertValue(ChildType, value)
      [] vc = "Slice[int32](Int32)" -> Slice("int32", "Int32", value)
      [] vc = "Slice[int32](Int64)" -> Slice("int32", "Int64", value)
      [] vc = "Slice[*Record](Child)" -> Slice("*Record", "Child", value)

(***************************************************************************)
(* Package flex: the converters.  A key that is absent from the input map  *)
(* is converted from UndefinedValue.                                       *)
(***************************************************************************)
FlexConvertInt64(value) ==
    IF value.k \in {"uint64", "uint"}
    THEN IF Less(MaxInt64, value.s) THEN [n |-> <<"0">>, err |-> Err("greater than maximum allowed number")]
         ELSE [n |-> value.s, err |-> NoErr]
    ELSE IF value.k \in IntKinds THEN [n |-> value.s, err |-> NoErr]
    ELSE CHOOSE out \in
             {IF ~num.ok THEN [n |-> <<"0">>, err |-> Err("not a valid number")]
              ELSE [n |-> num.n, err |-> NoErr] :
              num \in {ParseInt(TrimSpace(Sprint(value)))}} : TRUE

FlexConvertInt32(value) ==
    CHOOSE out \in
        {IF c.err # NoErr THEN [n |-> <<"0">>, err |-> c.err]
         ELSE IF Less(c.n, MinInt32) THEN [n |-> <<"0">>, err |-> Err("less than minimum allowed number")]
         ELSE IF Less(MaxInt32, c.n) THEN [n |-> <<"0">>, err |-> Err("greater than maximum allowed number")]
         ELSE [n |-> c.n, err |-> NoErr] :
         c \in {FlexConvertInt64(value)}} : TRUE

FlexConvertFloat64(value) ==
    IF value.k \in IntKinds THEN [n |-> 2 * IntOf(value.s), err |-> NoErr]
    ELSE IF value.k \in {"float32", "float64"} THEN [n |-> value.n, err |-> NoErr]
    ELSE CHOOSE out \in
             {IF ~num.ok THEN [n |-> 0, err |-> Err("not a valid number")]
              ELSE [n |-> num.n, err |-> NoErr] :
              num \in {ParseFloat(TrimSpace(Sprint(value)))}} : TRUE

FlexConvertFloat32(value) ==
    CHOOSE out \in
        {IF c.err # NoErr THEN [n |-> 0, err |-> c.err] ELSE [n |-> c.n, err |-> NoErr] :
         c \in {FlexConvertFloat64(value)}} : TRUE

FlexConvertDecimal(value) ==
    IF value.k = "decimal" THEN [n |-> value.n, err |-> NoErr]
    ELSE IF value.k \in {"int64", "int", "int32"} THEN [n |-> 2 * IntOf(value.s), err |-> NoErr]
    ELSE IF value.k \in {"float32", "float64"} THEN [n |-> value.n, err |-> NoErr]
    ELSE CHOOSE out \in
             {IF ~num.ok THEN [n |-> 0, err |-> Err("can't convert to decimal")]
              ELSE [n |-> num.n, err |-> NoErr] :
              num \in {NewFromString(TrimSpace(Sprint(value)))}} : TRUE

\* string(bytes) of the modelled byte slices, whose bytes are all zero.
BytesText(b) == [i \in 1..b.n |-> "^@"]

FlexConvertString(value) ==
    IF value.k = "string" THEN value.s
    ELSE IF value.k = "bytes" THEN BytesText(value)
    ELSE Sprint(value)

Passes(value) == value = Nil \/ value = UndefinedValue

\* Int64 of package flex that passes nil only.
FlexInt64NilOnly(value) ==
    LET c == FlexConvertInt64(value)
    IN  IF value = Nil THEN Res(value, NoErr)
        ELSE IF c.err # NoErr THEN Res(Nil, c.err)
        ELSE Res(WideV("int64", c.n), NoErr)

FlexInt64(value) ==
    IF Passes(value) THEN Res(value, NoErr)
    ELSE CHOOSE out \in
             {IF c.err # NoErr THEN Res(Nil, c.err)
              ELSE Res(WideV("int64", c.n), NoErr) :
              c \in {FlexConvertInt64(value)}} : TRUE

FlexInt32(value) ==
    IF Passes(value) THEN Res(value, NoErr)
    ELSE CHOOSE out \in
             {IF c.err # NoErr THEN Res(Nil, c.err)
              ELSE Res(WideV("int32", c.n), NoErr) :
              c \in {FlexConvertInt32(value)}} : TRUE

FlexFloat64(value) ==
    IF Passes(value) THEN Res(value, NoErr)
    ELSE CHOOSE out \in
             {IF c.err # NoErr THEN Res(Nil, c.err)
              ELSE Res(Float64V(c.n), NoErr) :
              c \in {FlexConvertFloat64(value)}} : TRUE

FlexFloat32(value) ==
    IF Passes(value) THEN Res(value, NoErr)
    ELSE CHOOSE out \in
             {IF c.err # NoErr THEN Res(Nil, c.err)
              ELSE Res(Float32V(c.n), NoErr) :
              c \in {FlexConvertFloat32(value)}} : TRUE

FlexBool(value) ==
    IF Passes(value) THEN Res(value, NoErr)
    ELSE IF value.k = "bool" THEN Res(value, NoErr)
    ELSE IF value.k = "string"
         THEN CHOOSE out \in
                  {IF ~b.ok THEN Res(Nil, Err("strconv.ParseBool: invalid syntax"))
                   ELSE Res(BoolV(b.b), NoErr) :
                   b \in {ParseBool(TrimSpace(value.s))}} : TRUE
         ELSE Res(Nil, Err("not a valid boolean"))

FlexUUID(value) ==
    IF Passes(value) THEN Res(value, NoErr)
    ELSE IF value.k = "bytes" THEN FromBytes(value)
    ELSE FromString(Sprint(value))

FlexDecimal(value) ==
    IF Passes(value) THEN Res(value, NoErr)
    ELSE CHOOSE out \in
             {IF c.err # NoErr THEN Res(Nil, c.err)
              ELSE Res(DecimalV(c.n), NoErr) :
              c \in {FlexConvertDecimal(value)}} : TRUE

FlexString(value) ==
    IF Passes(value) THEN Res(value, NoErr) ELSE Res(Str(FlexConvertString(value)), NoErr)

FlexStringSlice(value) ==
    IF Passes(value) THEN Res(value, NoErr)
    ELSE IF value.k = "[]string" THEN Res(value, NoErr)
    ELSE IF value.k = "[]any"
         THEN Res(SliceV("[]string", [i \in 1..Len(value.e) |-> Str(FlexConvertString(value.e[i]))]), NoErr)
         ELSE Res(Nil, Err("cannot convert to string slice"))

\* The loop of Int32Slice returns at the first element that fails.
FlexInt32Slice(value) ==
    IF Passes(value) THEN Res(value, NoErr)
    ELSE IF value.k = "[]int32" THEN Res(value, NoErr)
    ELSE IF value.k = "[]any"
         THEN CHOOSE out \in
                  {IF \E i \in DOMAIN c : c[i].err # NoErr
                   THEN Res(Nil, c[CHOOSE i \in DOMAIN c :
                                      c[i].err # NoErr /\ \A j \in 1..(i - 1) : c[j].err = NoErr].err)
                   ELSE Res(SliceV("[]int32", [i \in DOMAIN c |-> WideV("int32", c[i].n)]), NoErr) :
                   c \in {[i \in 1..Len(value.e) |-> FlexConvertInt32(value.e[i])]}} : TRUE
         ELSE Res(Nil, Err("cannot convert to int32 slice"))

\* The modelled texts hold no invalid UTF-8, so strings.ToValidUTF8 keeps them.
normalizeOneLineString(s) ==
    TrimSpace([i \in 1..Len(s) |-> IF IsPrint(s[i]) THEN s[i] ELSE " "])

FlexTextField(value) ==
    IF Passes(value) THEN Res(value, NoErr)
    ELSE IF value.k = "string" THEN Res(Str(normalizeOneLineString(value.s)), NoErr)
    ELSE Res(Nil, Err("not a string"))

RequireDefined(value) ==
    IF value = UndefinedValue THEN Res(Nil, Err("must be defined")) ELSE Res(value, NoErr)

RequireNotNil(value) ==
    IF value = Nil THEN Res(Nil, Err("cannot be nil")) ELSE Res(value, NoErr)

FlexRequire(value) ==
    IF RequireDefined(value).err # NoErr THEN Res(Nil, RequireDefined(value).err)
    ELSE IF RequireNotNil(value).err # NoErr THEN Res(Nil, RequireNotNil(value).err)
    ELSE IF value = Str(<<>>) THEN Res(Nil, Err("cannot be empty"))
    ELSE Res(value, NoErr)

FlexTypeConverters ==
    {"Int64", "Int32", "Float64", "Float32", "Bool", "UUID", "Decimal", "String", "StringSlice",
     "Int32Slice", "TextField"}

FlexConverters == FlexTypeConverters \cup {"Require", "RequireDefined", "RequireNotNil"}

\* ValueConverterFunc.ConvertValue in package flex.
FlexConvertValue(vc, value) ==
    CASE vc = "Int64" -> FlexInt64(value)
      [] vc = "Int32" -> FlexInt32(value)
      [] vc = "Float64" -> FlexFloat64(value)
      [] vc = "Float32" -> FlexFloat32(value)
      [] vc = "Bool" -> FlexBool(value)
      [] vc = "UUID" -> FlexUUID(value)
      [] vc = "Decimal" -> FlexDecimal(value)
      [] vc = "String" -> FlexString(value)
      [] vc = "StringSlice" -> FlexStringSlice(value)
      [] vc = "Int32Slice" -> FlexInt32Slice(value)
      [] vc = "TextField" -> FlexTextField(value)
      [] vc = "RequireDefined" -> RequireDefined(value)
      [] vc = "RequireNotNil" -> RequireNotNil(value)
      [] vc = "Require" -> FlexRequire(value)

\* The loop over f.converters in flex's Type.New (the same loop as flex's
\* convertSlice), with the list of the calls it makes.
RECURSIVE FlexConvertFrom(_, _, _, _)
FlexConvertFrom(converters, i, v, log) ==
    IF i > Len(converters) THEN [v |-> v, err |-> NoErr, calls |-> log]
    ELSE CHOOSE out \in
             {IF res.err # NoErr
              THEN [v |-> res.v, err |-> res.err, calls |-> Append(log, Call(converters[i], v, res))]
              ELSE FlexConvertFrom(converters, i + 1, res.v, Append(log, Call(converters[i], v, res))) :
              res \in {FlexConvertValue(converters[i], v)}} : TRUE

\* flex's IfDefined(converters...).ConvertValue(value)
IfDefined(converters, value) ==
    IF value = UndefinedValue THEN [v |-> value, err |-> NoErr, calls |-> <<>>]
    ELSE FlexConvertFrom(converters, 1, value, <<>>)

\* flex's IfNotNil(converters...).ConvertValue(value)
FlexIfNotNil(converters, value) ==
    IF value = Nil THEN [v |-> value, err |-> NoErr, calls |-> <<>>]
    ELSE FlexConvertFrom(converters, 1, value, <<>>)

\* Type.Field: registers or replaces the field of that name.
field(name, converters) == [name |-> name, converters |-> converters]

TypeField(typ, name, converters) == (name :> field(name, converters)) @@ typ

\* The value Type.New starts the chain of field name from.
FlexLookup(attrs, name) == IF name \in DOMAIN attrs.kv THEN attrs.kv[name] ELSE UndefinedValue

\* The body of the loop of flex's Type.New for one field.
FlexNewStep(rec, f, attrs) ==
    CHOOSE out \in
        {IF c.err = NoErr
         THEN IF c.v # UndefinedValue
              THEN [rec EXCEPT !.converted = (f.name :> c.v) @@ rec.converted]
              ELSE rec
         ELSE [rec EXCEPT !.errors = (f.name :> c.err) @@ rec.errors] :
         c \in {FlexConvertFrom(f.converters, 1, FlexLookup(attrs, f.name), <<>>)}} : TRUE

(***************************************************************************)
(* Package softstruct: Type.New and RecordSlice.  Its Int32, Require and   *)
(* Record.Errors read the same as package mp's.                            *)
(***************************************************************************)
\* Type.New: each field of t.fields runs its converters until one fails.
SoftTypeNew(typ, attrs) ==
    CHOOSE out \in
        {[original |-> attrs,
          converted |-> [name \in {n \in DOMAIN typ : c[n].err = NoErr} |-> c[name].v],
          errors |-> [name \in {n \in DOMAIN typ : c[n].err # NoErr} |-> c[name].err]] :
         c \in {[n \in DOMAIN typ |-> convertSlice(Index(attrs, n), typ[n].converters)]}} : TRUE

\* The loop of RecordSlice over the elements of a []any, with the list of
\* the calls of t.New it makes.  An element that is no map returns at once.
RECURSIVE RecordSliceLoop(_, _, _, _, _, _)
RecordSliceLoop(typ, value, i, rs, elErrs, log) ==
    IF i > Len(value)
    THEN IF elErrs # <<>> THEN [v |-> Nil, err |-> sliceElementErrors(elErrs), calls |-> log]
         ELSE [v |-> SliceV("[]*Record", rs), err |-> NoErr, calls |-> log]
    ELSE IF value[i].k = "map"
         THEN CHOOSE out \in
                  {RecordSliceLoop(typ, value, i + 1, Append(rs, RecordV(rec)),
                                   elErrs \o (IF RecordErrors(rec) # NoErr
                                              THEN <<sliceElementError(i - 1, RecordErrors(rec))>>
                                              ELSE <<>>),
                                   Append(log, Call("New", value[i], Res(RecordV(rec), RecordErrors(rec))))) :
                   rec \in {SoftTypeNew(typ, MapOf(value[i].m))}} : TRUE
         ELSE [v |-> Nil,
               err |-> Err("cannot convert to element " \o ToString(i - 1) \o " to record"),
               calls |-> log]

\* RecordSlice(t)
RecordSlice(typ, value) ==
    IF value = Nil THEN [v |-> Nil, err |-> NoErr, calls |-> <<>>]
    ELSE IF value.k = "[]any" THEN RecordSliceLoop(typ, value.e, 1, <<>>, <<>>, <<>>)
    ELSE [v |-> Nil, err |-> Err("cannot convert to record slice"), calls |-> <<>>]

\* The Type of the elements.
SoftChildType == "n" :> field("n", <<"Int32", "Require">>)

(***************************************************************************)
(* The inputs the model draws from.                                        *)
(***************************************************************************)
Alphabet == {"1", "a", " ", "\t"}

Strings == {Str(s) : s \in SeqsUpTo(Alphabet, MaxStrLen)}

FieldValues ==
    Strings \cup {Nil, IntV(0), IntV(1), Int64V(12), Float64V(2), Float64V(3), Float32V(4), BoolV(TRUE),
                  BoolV(FALSE), BytesV(16), BytesV(1), TimeV(1), UUIDV(UUIDOf("1")),
                  Str(UUIDOf("a")), DecimalV(3)}

FieldChains == SeqsUpTo(Converters, MaxChain)

RecordValues == {Nil, Str(<<>>), Str(<<"1">>), Str(<<"a">>), IntV(1)}

RecordChains == {<<>>, <<"Require">>, <<"Int64">>, <<"Int64", "Require">>}

RecordFields == {NewField(name, chain) : name \in Names, chain \in RecordChains}

FlexValues ==
    FieldValues \cup {UndefinedValue, SliceV("[]any", <<Str(<<"1">>), IntV(1)>>),
                      SliceV("[]any", <<IntV(1), Str(<<"a">>)>>), SliceV("[]string", <<Str(<<"a">>)>>),
                      SliceV("[]int32", <<Int32V(1)>>)}

FlexChains == SeqsUpTo(FlexConverters, MaxChain)

FlexRecordChains == {<<>>, <<"Int64">>, <<"Require">>, <<"Int64", "Require">>}

\* Integers at the edges of int32, int64 and uint64.
IntNumbers ==
    {<<"0">>, <<"7">>, <<"-", "7">>,
     MaxInt32, <<"2", "1", "4", "7", "4", "8", "3", "6", "4", "8">>,
     MinInt32, <<"-", "2", "1", "4", "7", "4", "8", "3", "6", "4", "9">>,
     MaxInt64, <<"9", "2", "2", "3", "3", "7", "2", "0", "3", "6", "8", "5", "4", "7", "7", "5", "8", "0", "8">>,
     MinInt64, <<"-", "9", "2", "2", "3", "3", "7", "2", "0", "3", "6", "8", "5", "4", "7", "7", "5", "8", "0", "9">>,
     <<"1", "8", "4", "4", "6", "7", "4", "4", "0", "7", "3", "7", "0", "9", "5", "5", "1", "6", "1", "5">>}

\* The integers a native integer of kind k can hold.
Fits(k, x) ==
    CASE k = "int8" -> ~Less(x, <<"-", "1", "2", "8">>) /\ ~Less(<<"1", "2", "7">>, x)
      [] k = "int32" -> ~Less(x, MinInt32) /\ ~Less(MaxInt32, x)
      [] k \in {"int64", "int"} -> ~Less(x, MinInt64) /\ ~Less(MaxInt64, x)
      [] k \in {"uint64", "uint"} -> ~IsNeg(x)

\* Each integer as the native integers that hold it and as decimal strings.
IntInputs ==
    UNION {{WideV(k, x) : x \in {y \in IntNumbers : Fits(k, y)}} :
           k \in {"int8", "int32", "int64", "int", "uint64", "uint"}}
    \cup {Str(x) : x \in IntNumbers}
    \cup {Str(<<" ">> \o x \o <<"\t">>) : x \in IntNumbers}

\* The chains and values IfNotNil and IfDefined are run with.
IfChains == SeqsUpTo({"Int64", "Require"}, MaxChain)

IfValues == RecordValues \cup {Str(<<" ">>), UndefinedValue}

\* The Slice converters the model builds: Slice[T](elementConverter).
SliceConverters ==
    {[vc |-> "Slice[int32](Int32)", T |-> "int32", elementConverter |-> "Int32"],
     [vc |-> "Slice[int32](Int64)", T |-> "int32", elementConverter |-> "Int64"],
     [vc |-> "Slice[*Record](Child)", T |-> "*Record", elementConverter |-> "Child"]}

SliceElems ==
    {Nil, Str(<<"1">>), Str(<<"a">>), IntV(2), MapV("n" :> IntV(1)), MapV("n" :> Str(<<"a">>))}

SliceInputs ==
    {Nil, Str(<<"a">>), IntV(42), SliceV("[]int32", <<Int32V(1), Int32V(2)>>),
     SliceV("[]string", <<Str(<<"a">>)>>),
     SliceV("[]*Record", <<RecordV(TypeParse(ChildType, MapOf("n" :> IntV(1))))>>)}
    \cup {SliceV("[]any", e) : e \in SeqsUpTo(SliceElems, MaxElems)}

RecordSliceInputs ==
    {Nil, Str(<<"a">>), IntV(42), SliceV("[]int32", <<Int32V(1), Int32V(2)>>)}
    \cup {SliceV("[]any", e) : e \in SeqsUpTo(SliceElems, MaxElems)}

\* Types with a field c whose chain is a nested Type or a Slice.
NestedChains == {<<"Child">>, <<"Slice[int32](Int32)">>, <<"Slice[*Record](Child)">>, <<"Child", "Require">>}

NestedTypes ==
    {NewType(<<NewField("c", chain)>>) : chain \in NestedChains}
    \cup {NewType(<<NewField("a", <<"Int64">>), NewField("c", chain)>>) : chain \in NestedChains}

NestedValues ==
    {Nil, Str(<<"a">>), IntV(2), MapV(NoVals), MapV("n" :> IntV(1)), MapV("n" :> Str(<<"1">>)),
     MapV("n" :> Str(<<"a">>)), MapV("n" :> Nil), MapV(("n" :> IntV(1)) @@ ("x" :> Str(<<"a">>))),
     SliceV("[]int32", <<Int32V(1)>>)}
    \cup {SliceV("[]any", e) : e \in SeqsUpTo({Str(<<"1">>), Str(<<"a">>), MapV("n" :> IntV(1))}, MaxElems)}

NestedMaps ==
    {NilMap, MapOf("a" :> Str(<<"1">>)), MapOf("a" :> Str(<<"a">>)),
     MapOf(("a" :> Str(<<"a">>)) @@ ("c" :> MapV("n" :> Str(<<"a">>))))}
    \cup {MapOf("c" :> v) : v \in NestedValues}
    \cup {MapOf(("a" :> Str(<<"1">>)) @@ ("c" :> v)) : v \in NestedValues}

\* One character of each class: printable, ASCII space, other white space,
\* other non-printable, invalid encoding.
LineAlphabet == {"a", " ", "\t", "u200B", "xFE"}

LineInputs == {Nil, IntV(1)} \cup {Str(s) : s \in SeqsUpTo(LineAlphabet, MaxLineLen)}

RecordMaps ==
    {NilMap} \cup {MapOf(kv) : kv \in UNION {[D -> RecordValues] : D \in SUBSET Names}}

(***************************************************************************)
(* Package mp: calls of Type.Parse that run at the same time on one Type.  *)
(* typ is the shared *Type, heap the maps the callers hold, arg[g] the map *)
(* goroutine g passes, rec[g] the Record its call allocated, at[g] its     *)
(* position and todo[g] the fields its loop has not visited yet.           *)
(***************************************************************************)
MaxGoroutines == 2

Goroutines == 1..MaxGoroutines

MapIds == {"m1", "m2"}

NoPar == [typ |-> NoType, heap |-> [id \in {} |-> NilMap], arg |-> <<>>, at |-> <<>>, rec |-> <<>>, todo |-> <<>>]

ParTypes ==
    {NewType(<<NewField("a", <<"Int64", "Require">>), NewField("b", <<"Require">>)>>),
     NewType(<<NewField("a", <<"Require">>), NewField("b", <<"Int64">>)>>)}

ParMaps ==
    {NilMap,
     MapOf(("a" :> Str(<<"1">>)) @@ ("b" :> Str(<<"a">>))),
     MapOf(("a" :> Str(<<"a">>)) @@ ("x" :> IntV(1)))}

\* r := &Record{original: m, ...}: the call allocates its own Record.
GoNew(p, g) ==
    [p EXCEPT !.rec[g] = NewRecord(p.heap[p.arg[g]]),
              !.todo[g] = DOMAIN p.typ.fieldsByName,
              !.at[g] = "parsing"]

\* A loop body that keeps the Record in one place for all calls.
GoStepShared(p, g, name) ==
    [p EXCEPT !.rec[1] = ParseStep(@, p.typ.fieldsByName[name], p.heap[p.arg[g]]),
              !.todo[g] = @ \ {name}]

\* One iteration of the loop of the call of goroutine g: it reads the Type
\* and the input map and writes the Record of its own call.
GoStep(p, g, name) ==
    [p EXCEPT !.rec[g] = ParseStep(@, p.typ.fieldsByName[name], p.heap[p.arg[g]]),
              !.todo[g] = @ \ {name}]

(***************************************************************************)
(* encoding/json, as far as Command.Exec and Command.ExecJSON use it: a    *)
(* map[string]interface{} whose keys are single characters and whose       *)
(* values are strings, whole numbers or nil.  Bytes are lists of           *)
(* characters; a nil []byte and an empty one are different values.         *)
(***************************************************************************)
NilMapV == Val("map(nil)", <<>>, 0, <<>>)
NilBytes == Val("[]byte(nil)", <<>>, 0, <<>>)
BytesOf(text) == Val("[]byte", text, 0, <<>>)
FuncV == Val("func", <<>>, 0, <<>>)

\* The keys the maps of the model use, in the order of their bytes.
JSONKeys == <<"a", "b", "c", "n", "s", "x">>

RECURSIVE JoinChars(_)
JoinChars(cs) == IF cs = <<>> THEN "" ELSE Head(cs) \o JoinChars(Tail(cs))

RECURSIVE SkipWS(_, _)
SkipWS(buf, i) ==
    IF i <= Len(buf) /\ buf[i] \in {" ", "\t", "\n", "\r"} THEN SkipWS(buf, i + 1) ELSE i

\* The index of the first quote at or after i, 0 if there is none.
RECURSIVE QuoteAt(_, _)
QuoteAt(buf, i) ==
    IF i > Len(buf) THEN 0 ELSE IF buf[i] = "\"" THEN i ELSE QuoteAt(buf, i + 1)

\* The index after the run of digits that starts at i.
RECURSIVE DigitsEnd(_, _)
DigitsEnd(buf, i) ==
    IF i <= Len(buf) /\ IsDigit(buf[i]) THEN DigitsEnd(buf, i + 1) ELSE i

BadJSON == [ok |-> FALSE, v |-> Nil, kv |-> NoVals, next |-> 0]

\* A value at i: a string, a number (decoded to float64) or null.
JSONValue(buf, i) ==
    IF i > Len(buf) THEN BadJSON
    ELSE IF buf[i] = "\""
    THEN LET q == QuoteAt(buf, i + 1)
         IN  IF q = 0 THEN BadJSON
             ELSE [BadJSON EXCEPT !.ok = TRUE, !.v = Str(SubSeq(buf, i + 1, q - 1)), !.next = q + 1]
    ELSE IF IsDigit(buf[i])
    THEN LET e == DigitsEnd(buf, i)
         IN  IF buf[i] = "0" /\ e > i + 1 THEN BadJSON
             ELSE [BadJSON EXCEPT !.ok = TRUE, !.v = Float64V(2 * DigitsVal(SubSeq(buf, i, e - 1))), !.next = e]
    ELSE IF i + 3 <= Len(buf) /\ SubSeq(buf, i, i + 3) = <<"n", "u", "l", "l">>
    THEN [BadJSON EXCEPT !.ok = TRUE, !.next = i + 4]
    ELSE BadJSON

\* The members of an object from i up to its closing brace; a key given
\* twice keeps its last value.
RECURSIVE JSONMembers(_, _, _)
JSONMembers(buf, i, kv) ==
    LET j == SkipWS(buf, i)
        q == IF j <= Len(buf) /\ buf[j] = "\"" THEN QuoteAt(buf, j + 1) ELSE 0
        c == SkipWS(buf, q + 1)
        val == IF q # 0 /\ c <= Len(buf) /\ buf[c] = ":" THEN JSONValue(buf, SkipWS(buf, c + 1)) ELSE BadJSON
        d == SkipWS(buf, val.next)
        now == (JoinChars(SubSeq(buf, j + 1, q - 1)) :> val.v) @@ kv
    IN  IF ~val.ok \/ d > Len(buf) THEN BadJSON
        ELSE IF buf[d] = "," THEN JSONMembers(buf, d + 1, now)
        ELSE IF buf[d] = "}" THEN [BadJSON EXCEPT !.ok = TRUE, !.kv = now, !.next = d + 1]
        ELSE BadJSON

JSONObject(buf, i) ==
    LET j == SkipWS(buf, i + 1)
    IN  IF j <= Len(buf) /\ buf[j] = "}" THEN [BadJSON EXCEPT !.ok = TRUE, !.next = j + 1]
        ELSE JSONMembers(buf, i + 1, NoVals)

\* json.Unmarshal(buf, &response) with response a nil map[string]interface{}.
Unmarshal(buf) ==
    LET i == SkipWS(buf, 1)
        obj == IF i <= Len(buf) /\ buf[i] = "{" THEN JSONObject(buf, i) ELSE BadJSON
        val == JSONValue(buf, i)
    IN  IF i > Len(buf) THEN Res(NilMapV, ErrVal("json.SyntaxError", "unexpected end of JSON input", <<>>))
        ELSE IF obj.ok /\ SkipWS(buf, obj.next) > Len(buf) THEN Res(MapV(obj.kv), NoErr)
        ELSE IF val.ok /\ SkipWS(buf, val.next) > Len(buf)
        THEN IF val.v = Nil THEN Res(NilMapV, NoErr)
             ELSE Res(NilMapV, ErrVal("json.UnmarshalTypeError", "", <<>>))
        ELSE Res(NilMapV, ErrVal("json.SyntaxError", "", <<>>))

\* The encoding of one value of a map.
JSONText(value) ==
    IF value.k = "string" THEN <<"\"">> \o value.s \o <<"\"">>
    ELSE IF value.k \in IntKinds THEN value.s
    ELSE <<"n", "u", "l", "l">>

JSONSupported(value) == value.k \in IntKinds \cup {"string", "nil"}

RECURSIVE MarshalMembers(_, _, _)
MarshalMembers(kv, keys, i) ==
    IF i > Len(keys) THEN <<>>
    ELSE (IF i > 1 THEN <<",">> ELSE <<>>)
         \o <<"\"", keys[i], "\"", ":">> \o JSONText(kv[keys[i]])
         \o MarshalMembers(kv, keys, i + 1)

\* json.Marshal(response) of a map that is not nil: the keys are sorted.
Marshal(response) ==
    LET kv == response.m
        keys == SelectSeq(JSONKeys, LAMBDA k : k \in DOMAIN kv)
    IN  IF \E k \in DOMAIN kv : ~JSONSupported(kv[k])
        THEN Res(NilBytes, ErrVal("json.UnsupportedTypeError", "", <<>>))
        ELSE Res(BytesOf(<<"{">> \o MarshalMembers(kv, keys, 1) \o <<"}">>), NoErr)

(***************************************************************************)
(* Package flex: Shell and Command.  A handler is a function of the        *)
(* caller; the model keeps what it returns and leaves its body open.       *)
(***************************************************************************)
\* fmt.Errorf(msg + ": %w", err)
Wrap(msg, err) == [ErrVal("wrapError", msg, <<>>) EXCEPT !.l = <<err>>]

RECURSIVE FlexNewFrom(_, _, _)
FlexNewFrom(fields, rec, names) ==
    IF names = {} THEN rec
    ELSE LET name == CHOOSE n \in names : TRUE
         IN  FlexNewFrom(fields, FlexNewStep(rec, fields[name], rec.original), names \ {name})

\* flex's Type.New as one call.
FlexTypeNew(fields, attrs) == FlexNewFrom(fields, NewRecord(attrs), DOMAIN fields)

\* flex's Record.Errors
FlexRecordErrors(rec) == IF DOMAIN rec.errors = {} THEN NoErr ELSE ErrorsV(rec.errors)

NoFields == [x \in {} |-> field("", <<>>)]

\* A *Type: nil, or a Type with its fields.
NilType == [isnil |-> TRUE, fields |-> NoFields]
TypeOf(fields) == [isnil |-> FALSE, fields |-> fields]

\* A *Record: nil, or a Record.
NilRecord == [isnil |-> TRUE, rec |-> NoRecord]
RecordOf(rec) == [isnil |-> FALSE, rec |-> rec]

\* A handler: nil, or a function that returns resp and err.
NilFunc == [isnil |-> TRUE, resp |-> Nil, err |-> NoErr]
Func(resp, err) == [isnil |-> FALSE, resp |-> resp, err |-> err]

Command(Name, ParamsType, ExecFunc, ExecJSONFunc) ==
    [Name |-> Name, ParamsType |-> ParamsType, ExecFunc |-> ExecFunc, ExecJSONFunc |-> ExecJSONFunc]

NoCommand == Command("", NilType, NilFunc, NilFunc)

\* A parseParams that hands the Record on whatever its errors.
parseParamsUnchecked(cmd, params) ==
    IF cmd.ParamsType.isnil THEN [parsedParams |-> NilRecord, err |-> NoErr]
    ELSE [parsedParams |-> RecordOf(FlexTypeNew(cmd.ParamsType.fields, params)), err |-> NoErr]

\* Command.parseParams
parseParams(cmd, params) ==
    IF cmd.ParamsType.isnil THEN [parsedParams |-> NilRecord, err |-> NoErr]
    ELSE CHOOSE out \in
             {IF FlexRecordErrors(rec) # NoErr
              THEN [parsedParams |-> NilRecord,
                    err |-> Wrap("failed to parse params", FlexRecordErrors(rec))]
              ELSE [parsedParams |-> RecordOf(rec), err |-> NoErr] :
              rec \in {FlexTypeNew(cmd.ParamsType.fields, params)}} : TRUE

\* httpshell's JSONHandler without its Shell: the command's name, the
\* ParamsBuilder (nil, or a function with what it returns) and whether an
\* ErrorHandler is set.
JSONHandler(CommandName, ParamsBuilder, ErrorHandler) ==
    [CommandName |-> CommandName, ParamsBuilder |-> ParamsBuilder, ErrorHandler |-> ErrorHandler]

NoHandler == JSONHandler("", NilFunc, FALSE)

\* An http.ResponseWriter: the status written (0 for none), the header map,
\* the body written, the bytes each call of Write was given, and whether
\* its Write fails.
ResponseWriter(fails) ==
    [Code |-> 0, Header |-> [x \in {} |-> ""], Body |-> NilBytes, writes |-> <<>>, fails |-> fails]

\* The call in progress: of Shell.Exec or Shell.ExecJSON, and of
\* JSONHandler.ServeHTTP around it (how far it is, h, w, the errors handed
\* to the ErrorHandler and the value ServeHTTP panicked with).
NoShell ==
    [commands |-> [x \in {} |-> NoCommand], api |-> "", name |-> "", params |-> NilMap,
     at |-> "idle", cmd |-> NoCommand, parsedParams |-> NilRecord, invoked |-> <<>>,
     hres |-> Res(Nil, NoErr), out |-> Res(Nil, NoErr),
     serving |-> "no", h |-> NoHandler, w |-> ResponseWriter(FALSE), handled |-> <<>>,
     panic |-> NoErr]

\* Shell.Exec and Shell.ExecJSON up to the call of the Command's method.
Lookup(s, api, name, params) ==
    IF name \notin DOMAIN s.commands
    THEN [s EXCEPT !.api = api, !.name = name, !.params = params, !.at = "returned",
                   !.out = Res(IF api = "Exec" THEN NilMapV ELSE NilBytes, Err("command not found: " \o name))]
    ELSE [s EXCEPT !.api = api, !.name = name, !.params = params, !.at = "parse",
                   !.cmd = s.commands[name]]

\* The handler Command.Exec and Command.ExecJSON turn to: the one of the
\* method's own result type first, the other one second.
Handler(cmd, api) ==
    LET first == IF api = "Exec" THEN "ExecFunc" ELSE "ExecJSONFunc"
        second == IF api = "Exec" THEN "ExecJSONFunc" ELSE "ExecFunc"
    IN  IF ~cmd[first].isnil THEN first
        ELSE IF ~cmd[second].isnil THEN second
        ELSE "missing"

\* Command.Exec and Command.ExecJSON from their first line to the call of
\* the handler.
Parsed(s, p) ==
    IF p.err # NoErr
    THEN [s EXCEPT !.at = "returned",
                   !.out = Res(IF s.api = "Exec" THEN NilMapV ELSE NilBytes, Wrap("failed to parse params", p.err))]
    ELSE IF Handler(s.cmd, s.api) = "missing"
    THEN [s EXCEPT !.at = "returned", !.parsedParams = p.parsedParams,
                   !.out = Res(IF s.api = "Exec" THEN NilMapV ELSE NilBytes, Err("missing function: " \o s.cmd.Name))]
    ELSE [s EXCEPT !.at = Handler(s.cmd, s.api), !.parsedParams = p.parsedParams]

\* Command.Exec after its handler returned.
ExecResult(func, hres) ==
    IF hres.err # NoErr THEN Res(NilMapV, hres.err)
    ELSE IF func = "ExecFunc" THEN Res(hres.v, NoErr)
    ELSE IF hres.v = NilBytes THEN Res(NilMapV, NoErr)
    ELSE LET u == Unmarshal(hres.v.s)
         IN  IF u.err # NoErr THEN Res(NilMapV, u.err) ELSE Res(u.v, NoErr)

\* Command.ExecJSON after its handler returned.
ExecJSONResult(func, hres) ==
    IF hres.err # NoErr THEN Res(NilBytes, hres.err)
    ELSE IF func = "ExecJSONFunc" THEN Res(hres.v, NoErr)
    ELSE IF hres.v = NilMapV THEN Res(NilBytes, NoErr)
    ELSE LET b == Marshal(hres.v)
         IN  IF b.err # NoErr THEN Res(NilBytes, b.err) ELSE Res(b.v, NoErr)

\* The commands, maps and names the shell is run with.
ParamsTypes ==
    {NilType, TypeOf(NoFields),
     TypeOf(TypeField(NoFields, "a", <<"Require", "Int32">>))}

ExecFuncs ==
    {NilFunc, Func(NilMapV, NoErr), Func(MapV(NoVals), NoErr), Func(MapV("s" :> Int32V(3)), NoErr),
     Func(MapV(("b" :> Nil) @@ ("a" :> Str(<<"a">>))), NoErr), Func(MapV("s" :> FuncV), NoErr),
     Func(NilMapV, Err("handler failed"))}

ExecJSONFuncs ==
    {NilFunc, Func(NilBytes, NoErr), Func(BytesOf(<<>>), NoErr),
     Func(BytesOf(<<"n", "u", "l", "l">>), NoErr),
     Func(BytesOf(<<"{", "}">>), NoErr),
     Func(BytesOf(<<"{", "\"", "s", "\"", ":", "3", "}">>), NoErr),
     Func(BytesOf(<<"{", "\"", "a", "\"", ":", "\"", "a", "\"", ",", " ", "\"", "a", "\"", ":", "n", "u", "l", "l", "}">>), NoErr),
     Func(BytesOf(<<"{">>), NoErr),
     Func(BytesOf(<<"3">>), NoErr),
     Func(NilBytes, Err("handler failed"))}

Commands ==
    {Command("add", pt, f, j) : pt \in ParamsTypes, f \in ExecFuncs, j \in ExecJSONFuncs}

ExecNames == {"add", "sub"}

ExecParams == {NilMap, MapOf("a" :> IntV(1)), MapOf("a" :> Str(<<"a">>))}

(***************************************************************************)
(* Package mp: the converters that compare with a bound.                   *)
(***************************************************************************)
\* tryDecimal: the number in halves, and whether there is one.
tryDecimal(value) ==
    IF value.k = "decimal" THEN [n |-> value.n, ok |-> TRUE]
    ELSE IF value.k \in {"int32", "int64", "int"} THEN [n |-> 2 * IntOf(value.s), ok |-> TRUE]
    ELSE IF value.k \in {"float32", "float64"} THEN [n |-> value.n, ok |-> TRUE]
    ELSE CHOOSE out \in
             {IF ~num.ok THEN [n |-> 0, ok |-> FALSE] ELSE [n |-> num.n, ok |-> TRUE] :
              num \in {NewFromString(Sprint(value))}} : TRUE

\* Decimal.Cmp
Cmp(d, d2) == IF d < d2 THEN 0 - 1 ELSE IF d = d2 THEN 0 ELSE 1

\* Decimal.LessThan, LessThanOrEqual, GreaterThan and GreaterThanOrEqual
Compares(op, n, dx) ==
    CASE op = "LessThan" -> Cmp(n, dx) = 0 - 1
      [] op = "LessThanOrEqual" -> Cmp(n, dx) \in {0 - 1, 0}
      [] op = "GreaterThan" -> Cmp(n, dx) = 1
      [] op = "GreaterThanOrEqual" -> Cmp(n, dx) \in {0, 1}

CompareOps == {"LessThan", "LessThanOrEqual", "GreaterThan", "GreaterThanOrEqual"}

\* LessThan(x) and the three others up to the return of the converter: the
\* bound as a decimal, or the panic.
CompareFactory(op, x) ==
    CHOOSE out \in
        {IF ~d.ok
         THEN [panicked |-> TRUE, dx |-> 0,
               msg |-> JoinChars(Sprint(x)) \o " is not convertable to a decimal number"]
         ELSE [panicked |-> FALSE, dx |-> d.n, msg |-> ""] :
         d \in {tryDecimal(x)}} : TRUE

\* A converter that lets a value equal to the bound pass whatever op is.
CompareConvertOrEqual(op, dx, value) ==
    IF value = Nil THEN Res(Nil, NoErr)
    ELSE LET d == tryDecimal(value)
         IN  IF ~d.ok THEN Res(Nil, Err("not a number"))
             ELSE IF ~(Compares(op, d.n, dx) \/ d.n = dx)
             THEN Res(Nil, Err(IF op \in {"LessThan", "LessThanOrEqual"} THEN "too large" ELSE "too small"))
             ELSE Res(value, NoErr)

\* The converter LessThan(x) and the three others return.
CompareConvert(op, dx, value) ==
    IF value = Nil THEN Res(Nil, NoErr)
    ELSE CHOOSE out \in
             {IF ~d.ok THEN Res(Nil, Err("not a number"))
              ELSE IF ~Compares(op, d.n, dx)
              THEN Res(Nil, Err(IF op \in {"LessThan", "LessThanOrEqual"} THEN "too large" ELSE "too small"))
              ELSE Res(value, NoErr) :
              d \in {tryDecimal(value)}} : TRUE

\* Bounds and values around 10, as each kind of number and as text.
CompareBounds ==
    {IntV(10), Int64V(10), DecimalV(20), Float64V(21), Str(<<"1", "0">>), Str(<<"a">>), Nil, BoolV(TRUE)}

CompareInputs ==
    {Nil, IntV(9), IntV(10), IntV(11), Int32V(10), Int64V(11), WideV("int8", <<"1", "0">>),
     Float64V(65), Float64V(20), Float32V(21), DecimalV(19), DecimalV(20), DecimalV(21), DecimalV(2),
     Str(<<"9">>), Str(<<"1", "0">>), Str(<<"1", "1">>), Str(<<"1", "0", ".", "5">>), Str(<<"-", "1", "1">>),
     Str(<<" ", "9">>), Str(<<"a">>), Str(<<>>), BoolV(TRUE), BytesV(1)}

(***************************************************************************)
(* Package mp: MinLen and MaxLen.                                          *)
(***************************************************************************)
\* The bytes of the UTF-8 encoding of one character of the model.
Bytes(c) == IF c = "u200B" THEN 3 ELSE 1

\* len(s) of a string: its bytes.
RECURSIVE len(_)
len(s) == IF s = <<>> THEN 0 ELSE Bytes(Head(s)) + len(Tail(s))

\* tryLen: a string, or a value whose reflect.Kind is String, Slice or Map.
tryLen(value) ==
    IF value.k = "string" THEN [n |-> len(value.s), ok |-> TRUE]
    ELSE IF value.k \in {"[]any", "[]int32", "[]string", "[]*Record"} THEN [n |-> Len(value.e), ok |-> TRUE]
    ELSE IF value.k = "bytes" THEN [n |-> value.n, ok |-> TRUE]
    ELSE IF value.k = "map" THEN [n |-> Cardinality(DOMAIN value.m), ok |-> TRUE]
    ELSE IF value.k = "map(nil)" THEN [n |-> 0, ok |-> TRUE]
    ELSE [n |-> 0, ok |-> FALSE]

\* A MinLen(min) that also rejects a length equal to min.
MinLenStrict(min, value) ==
    IF value = Nil THEN Res(Nil, NoErr)
    ELSE IF ~tryLen(value).ok THEN Res(Nil, Err("not a string, slice or map"))
    ELSE IF tryLen(value).n <= min THEN Res(Nil, Err("too short"))
    ELSE Res(value, NoErr)

\* MinLen(min).ConvertValue(value)
MinLen(min, value) ==
    IF value = Nil THEN Res(Nil, NoErr)
    ELSE IF ~tryLen(value).ok THEN Res(Nil, Err("not a string, slice or map"))
    ELSE IF tryLen(value).n < min THEN Res(Nil, Err("too short"))
    ELSE Res(value, NoErr)

\* MaxLen(max).ConvertValue(value)
MaxLen(max, value) ==
    IF value = Nil THEN Res(Nil, NoErr)
    ELSE IF ~tryLen(value).ok THEN Res(Nil, Err("not a string, slice or map"))
    ELSE IF tryLen(value).n > max THEN Res(Nil, Err("too long"))
    ELSE Res(value, NoErr)

\* The bounds and values MinLen and MaxLen are run with.
LenBounds == (0 - 1)..3

LenInputs ==
    {Nil, Str(<<>>), Str(<<"a">>), Str(<<"a", "a">>), Str(<<"a", "a", "a">>), Str(<<"u200B">>),
     Str(<<"a", "u200B">>), IntV(1), BoolV(TRUE), DecimalV(2), TimeV(1), UUIDV(UUIDOf("1")),
     BytesV(0), BytesV(1), BytesV(16), NilMapV, MapV(NoVals), MapV("n" :> IntV(1)),
     MapV(("n" :> IntV(1)) @@ ("x" :> Nil)),
     SliceV("[]int32", <<>>), SliceV("[]int32", <<Int32V(1), Int32V(2), Int32V(3)>>),
     SliceV("[]any", <<Nil>>), SliceV("[]any", <<Nil, Str(<<>>)>>), SliceV("[]string", <<Str(<<"a">>)>>)}

(***************************************************************************)
(* Package httpshell: JSONHandler.ServeHTTP.                               *)
(***************************************************************************)
BuildParamsError(commandName, err) == [ErrVal("BuildParamsError", commandName, <<>>) EXCEPT !.l = <<err>>]
ExecError(commandName, err) == [ErrVal("ExecError", commandName, <<>>) EXCEPT !.l = <<err>>]
WriteError(commandName, err) == [ErrVal("WriteError", commandName, <<>>) EXCEPT !.l = <<err>>]

\* The value a call of a nil func panics with.
NilDereference == ErrVal("runtime.Error", "invalid memory address or nil pointer dereference", <<>>)

\* err.Error(): the texts the error can print as (an Errors prints its map
\* in the order the map is ranged over).
RECURSIVE ErrorTexts(_)
RECURSIVE ErrorsTexts(_, _)
RECURSIVE ElementsTexts(_, _)
ErrorTexts(err) ==
    IF err.k = "nil" THEN {"<nil>"}
    ELSE IF err.k = "sliceElementErrors" THEN ElementsTexts(err.l, 1)
    ELSE IF err.k = "wrapError" THEN {err.msg \o ": " \o x : x \in ErrorTexts(err.l[1])}
    ELSE IF err.k = "BuildParamsError" THEN {err.msg \o ": build params: " \o x : x \in ErrorTexts(err.l[1])}
    ELSE IF err.k = "ExecError" THEN {err.msg \o ": exec: " \o x : x \in ErrorTexts(err.l[1])}
    ELSE IF err.k = "WriteError" THEN {err.msg \o ": write: " \o x : x \in ErrorTexts(err.l[1])}
    ELSE IF err.k = "Errors" THEN ErrorsTexts(err.m, DOMAIN err.m)
    ELSE IF err.k = "json.UnsupportedTypeError" THEN {"json: unsupported type: func()"}
    ELSE {err.msg}

ErrorsTexts(m, attrs) ==
    IF attrs = {} THEN {""}
    ELSE UNION {{attr \o " " \o x \o (IF attrs = {attr} THEN "" ELSE ", ") \o y :
                 x \in ErrorTexts(m[attr]), y \in ErrorsTexts(m, attrs \ {attr})} : attr \in attrs}

\* sliceElementErrors.Error()
ElementsTexts(l, i) ==
    IF i > Len(l) THEN {""}
    ELSE {(IF i > 1 THEN ", " ELSE "") \o "Element " \o JoinChars(NatText(l[i].Index)) \o ": " \o x \o y :
          x \in ErrorTexts(l[i].Err), y \in ElementsTexts(l, i + 1)}

\* JSONHandler.buildParams
buildParams(h) ==
    IF ~h.ParamsBuilder.isnil THEN Res(h.ParamsBuilder.resp, h.ParamsBuilder.err)
    ELSE Res(NilMap, NoErr)

\* h.ErrorHandler(w, r, err): the call of a nil func panics; a handler that
\* is set is the caller's and is kept as the error it was called with.
CallErrorHandler(s, err) ==
    IF ~s.h.ErrorHandler THEN [s EXCEPT !.serving = "panicked", !.panic = NilDereference]
    ELSE [s EXCEPT !.serving = "served", !.handled = Append(@, err)]

\* ServeHTTP up to the return of Shell.ExecJSON's lookup.
ServeBegin(s, h, w) ==
    CHOOSE out \in
        {IF p.err # NoErr
         THEN CallErrorHandler([s EXCEPT !.serving = "exec", !.h = h, !.w = w],
                               BuildParamsError(h.CommandName, p.err))
         ELSE Lookup([s EXCEPT !.serving = "exec", !.h = h, !.w = w], "ExecJSON", h.CommandName, p.v) :
         p \in {buildParams(h)}} : TRUE

\* w.Write(jsonBytes) without an earlier WriteHeader: status 200 and the
\* bytes, or the writer's error.
Write(w, jsonBytes) ==
    IF w.fails THEN Res([w EXCEPT !.writes = Append(@, jsonBytes)], Err("write failed"))
    ELSE Res([w EXCEPT !.Code = 200, !.Body = jsonBytes, !.writes = Append(@, jsonBytes)], NoErr)

\* A ServeHTTP that answers 204 only for nil bytes.
ServeEndNilOnly(s) ==
    IF s.out.err # NoErr THEN CallErrorHandler(s, ExecError(s.h.CommandName, s.out.err))
    ELSE IF s.out.v = NilBytes THEN [s EXCEPT !.serving = "served", !.w.Code = 204]
    ELSE LET wr == Write([s.w EXCEPT !.Header = ("Content-Type" :> "application/json") @@ @], s.out.v)
         IN  IF wr.err # NoErr
             THEN CallErrorHandler([s EXCEPT !.w = wr.v], WriteError(s.h.CommandName, wr.err))
             ELSE [s EXCEPT !.serving = "served", !.w = wr.v]

\* ServeHTTP after Shell.ExecJSON returned.
ServeEnd(s) ==
    IF s.out.err # NoErr THEN CallErrorHandler(s, ExecError(s.h.CommandName, s.out.err))
    ELSE IF Len(s.out.v.s) = 0 THEN [s EXCEPT !.serving = "served", !.w.Code = 204]
    ELSE CHOOSE out \in
             {IF wr.err # NoErr
              THEN CallErrorHandler([s EXCEPT !.w = wr.v], WriteError(s.h.CommandName, wr.err))
              ELSE [s EXCEPT !.serving = "served", !.w = wr.v] :
              wr \in {Write([s.w EXCEPT !.Header = ("Content-Type" :> "application/json") @@ @], s.out.v)}} : TRUE

\* The handlers and writers ServeHTTP is run with.
ParamsBuilders ==
    {NilFunc, Func(NilMap, NoErr), Func(MapOf("a" :> IntV(1)), NoErr), Func(NilMap, Err("bad request"))}

JSONHandlers ==
    {JSONHandler(name, pb, eh) : name \in ExecNames, pb \in ParamsBuilders, eh \in BOOLEAN}

(***************************************************************************)
(* Package mp: Errors.MarshalJSON.  A message is one element of the bytes; *)
(* the messages of the model have no character that JSON escapes.          *)
(***************************************************************************)
RECURSIVE ErrorsMarshalJSONFlat(_)
RECURSIVE FlatMembers(_, _, _)
\* A MarshalJSON that writes every error as its message.
ErrorsMarshalJSONFlat(e) ==
    IF Cardinality(DOMAIN e) = 0 THEN {<<"{", "}">>}
    ELSE {<<"{">> \o x \o <<"}">> :
          x \in FlatMembers(e, SelectSeq(JSONKeys, LAMBDA k : k \in DOMAIN e), 1)}

FlatMembers(e, keys, i) ==
    IF i > Len(keys) THEN {<<>>}
    ELSE {(IF i > 1 THEN <<",">> ELSE <<>>) \o <<"\"", keys[i], "\"", ":">> \o <<"\"", val, "\"">> \o rest :
          val \in ErrorTexts(e[keys[i]]), rest \in FlatMembers(e, keys, i + 1)}

RECURSIVE ErrorsMarshalJSON(_)
RECURSIVE ErrorsMembers(_, _, _)
\* Errors.MarshalJSON: the outputs it can have (the message of an error
\* that holds a map depends on the order the map is ranged over).
ErrorsMarshalJSON(e) ==
    IF Cardinality(DOMAIN e) = 0 THEN {<<"{", "}">>}
    ELSE {<<"{">> \o x \o <<"}">> :
          x \in ErrorsMembers(e, SelectSeq(JSONKeys, LAMBDA k : k \in DOMAIN e), 1)}

\* json.Marshal(m) of the map MarshalJSON builds: the keys sorted, an error
\* that is a json.Marshaler by its own MarshalJSON, any other by its
\* message.
ErrorsMembers(e, keys, i) ==
    IF i > Len(keys) THEN {<<>>}
    ELSE {(IF i > 1 THEN <<",">> ELSE <<>>) \o <<"\"", keys[i], "\"", ":">> \o val \o rest :
          val \in (IF e[keys[i]].k = "Errors" THEN ErrorsMarshalJSON(e[keys[i]].m)
                   ELSE {<<"\"", x, "\"">> : x \in ErrorTexts(e[keys[i]])}),
          rest \in ErrorsMembers(e, keys, i + 1)}

(***************************************************************************)
(* Package mp: the state machine.                                          *)
(***************************************************************************)
NoFieldCall == [name |-> "", valueConverters |-> <<>>, arg |-> Nil, v |-> Nil, err |-> NoErr, calls |-> <<>>]

FlexIdle == /\ ft = [x \in {} |-> field("", <<>>)]
            /\ fr = NoRecord
            /\ ftodo = {}

Init ==
    /\ pc = "start"
    /\ t = NoType
    /\ r = NoRecord
    /\ todo = {}
    /\ calls = NoCalls
    /\ ret = NoRet
    /\ fc = NoFieldCall
    /\ FlexIdle
    /\ par = NoPar
    /\ sh = NoShell

\* t := mp.NewType(fields...)
Construct ==
    /\ pc = "start"
    /\ \E fields \in SeqsUpTo(RecordFields, MaxFields) : t' = NewType(fields)
    /\ pc' = "ready"
    /\ UNCHANGED <<par, sh, r, todo, calls, ret, fc, ft, fr, ftodo>>

\* Type.Parse up to the loop over fieldsByName.
ParseBegin ==
    /\ pc = "ready"
    /\ \E attrs \in RecordMaps : r' = NewRecord(attrs)
    /\ todo' = DOMAIN t.fieldsByName
    /\ calls' = NoCalls
    /\ pc' = "parsing"
    /\ UNCHANGED <<par, sh, t, ret, fc, ft, fr, ftodo>>

\* A loop that stops at the first field that fails.
ParseFieldFailFast ==
    /\ pc = "parsing"
    /\ \E name \in todo :
        /\ r' = ParseStep(r, t.fieldsByName[name], r.original)
        /\ calls' = (name :> FieldConvertValue(t.fieldsByName[name], Index(r.original, name)).calls) @@ calls
        /\ todo' = IF DOMAIN r'.errors # {} THEN {} ELSE todo \ {name}
    /\ UNCHANGED <<par, sh, pc, t, ret, fc, ft, fr, ftodo>>

\* One iteration of the loop of Type.Parse; Go ranges over the map in any order.
ParseField ==
    /\ pc = "parsing"
    /\ \E name \in todo :
        /\ r' = ParseStep(r, t.fieldsByName[name], r.original)
        /\ calls' = (name :> FieldConvertValue(t.fieldsByName[name], Index(r.original, name)).calls) @@ calls
        /\ todo' = todo \ {name}
    /\ UNCHANGED <<par, sh, pc, t, ret, fc, ft, fr, ftodo>>

\* Type.Parse returns the record.
ParseReturn ==
    /\ pc = "parsing"
    /\ todo = {}
    /\ pc' = "parsed"
    /\ UNCHANGED <<par, sh, t, r, todo, calls, ret, fc, ft, fr, ftodo>>

\* Record.Get(s)
Get ==
    /\ pc = "parsed"
    /\ \E s \in Names : ret' = RecordGet(t, r, s)
    /\ UNCHANGED <<par, sh, pc, t, r, todo, calls, fc, ft, fr, ftodo>>

\* Record.Pick(keys...)
Pick ==
    /\ pc = "parsed"
    /\ \E keys \in SeqsUpTo(Names, MaxPick) : ret' = RecordPick(t, r, keys)
    /\ UNCHANGED <<par, sh, pc, t, r, todo, calls, fc, ft, fr, ftodo>>

\* Record.Errors()
Errors ==
    /\ pc = "parsed"
    /\ ret' = [Ret("Errors", <<>>, FALSE, "", Nil, NoVals) EXCEPT !.err = RecordErrors(r)]
    /\ UNCHANGED <<par, sh, pc, t, r, todo, calls, fc, ft, fr, ftodo>>

\* Record.Attrs()
Attrs ==
    /\ pc = "parsed"
    /\ ret' = Ret("Attrs", <<>>, FALSE, "", Nil, RecordAttrs(r))
    /\ UNCHANGED <<par, sh, pc, t, r, todo, calls, fc, ft, fr, ftodo>>

\* t.Parse(r.Attrs()): the converted map of a Record parsed again by its Type.
Reparse ==
    /\ pc \in {"parsed", "nested_parsed"}
    /\ \E again \in {TypeParse(t, MapOf(RecordAttrs(r)))} :
        ret' = [Ret("Reparse", <<>>, FALSE, "", Nil, RecordAttrs(again)) EXCEPT !.err = RecordErrors(again)]
    /\ UNCHANGED <<par, sh, pc, t, r, todo, calls, fc, ft, fr, ftodo>>

\* NewField(name, valueConverters...).ConvertValue(value)
ConvertField ==
    /\ pc = "start"
    /\ \E name \in Names, chain \in FieldChains, value \in FieldValues :
        \E c \in {FieldConvertValue(NewField(name, chain), value)} :
            fc' = [name |-> name, valueConverters |-> chain, arg |-> value,
                   v |-> c.v, err |-> c.err, calls |-> c.calls]
    /\ pc' = "converted"
    /\ UNCHANGED <<par, sh, t, r, todo, calls, ret, ft, fr, ftodo>>

(***************************************************************************)
(* Package flex: the state machine.                                        *)
(***************************************************************************)
\* tb.Field(name, converters...) inside the function given to flex.NewType
FlexField ==
    /\ pc \in {"start", "flex_building"}
    /\ \E name \in Names, chain \in FlexRecordChains : ft' = TypeField(ft, name, chain)
    /\ pc' = "flex_building"
    /\ UNCHANGED <<par, sh, t, r, todo, calls, ret, fc, fr, ftodo>>

\* flex's Type.New up to the loop over t.fields.
FlexNewBegin ==
    /\ pc \in {"start", "flex_building"}
    /\ \E attrs \in RecordMaps : fr' = NewRecord(attrs)
    /\ ftodo' = DOMAIN ft
    /\ calls' = NoCalls
    /\ pc' = "flex_new"
    /\ UNCHANGED <<par, sh, t, r, todo, ret, fc, ft>>

\* One iteration of the loop of flex's Type.New.
FlexNewField ==
    /\ pc = "flex_new"
    /\ \E name \in ftodo :
        /\ fr' = FlexNewStep(fr, ft[name], fr.original)
        /\ calls' = (name :> FlexConvertFrom(ft[name].converters, 1, FlexLookup(fr.original, name), <<>>).calls) @@ calls
        /\ ftodo' = ftodo \ {name}
    /\ UNCHANGED <<par, sh, pc, t, r, todo, ret, fc, ft>>

\* flex's Type.New returns the record.
FlexNewReturn ==
    /\ pc = "flex_new"
    /\ ftodo = {}
    /\ pc' = "flex_made"
    /\ UNCHANGED <<par, sh, t, r, todo, calls, ret, fc, ft, fr, ftodo>>

\* A chain of flex converters applied to one value (flex's convertSlice).
FlexConvert ==
    /\ pc = "start"
    /\ \E chain \in FlexChains, value \in FlexValues :
        \E c \in {FlexConvertFrom(chain, 1, value, <<>>)} :
            fc' = [name |-> "", valueConverters |-> chain, arg |-> value,
                   v |-> c.v, err |-> c.err, calls |-> c.calls]
    /\ pc' = "flex_converted"
    /\ UNCHANGED <<par, sh, t, r, todo, calls, ret, ft, fr, ftodo>>

\* Int64().ConvertValue(value) and Int32().ConvertValue(value) on integers at
\* the edges of the widths.
ConvertInt ==
    /\ pc = "start"
    /\ \E vc \in {"Int64", "Int32"}, value \in IntInputs :
        \E c \in {ConvertValue(vc, value)} :
            fc' = [name |-> "", valueConverters |-> <<vc>>, arg |-> value,
                   v |-> c.v, err |-> c.err, calls |-> <<Call(vc, value, c)>>]
    /\ pc' = "int_converted"
    /\ UNCHANGED <<par, sh, t, r, todo, calls, ret, ft, fr, ftodo>>

\* Slice[T](elementConverter).ConvertValue(value)
ConvertSliceValue ==
    /\ pc = "start"
    /\ \E sc \in SliceConverters, value \in SliceInputs :
        \E c \in {ConvertValue(sc.vc, value)} :
            fc' = [name |-> "", valueConverters |-> <<sc.vc>>, arg |-> value, v |-> c.v, err |-> c.err,
                   calls |-> IF value.k = "[]any"
                             THEN SliceLoop(sc.T, sc.elementConverter, value.e, 1, <<>>, <<>>, <<>>).calls
                             ELSE <<>>]
    /\ pc' = "slice_converted"
    /\ UNCHANGED <<par, sh, t, r, todo, calls, ret, ft, fr, ftodo>>

\* RecordSlice(t).ConvertValue(value)
ConvertRecordSlice ==
    /\ pc = "start"
    /\ \E value \in RecordSliceInputs :
        \E c \in {RecordSlice(SoftChildType, value)} :
            fc' = [name |-> "", valueConverters |-> <<"RecordSlice">>, arg |-> value,
                   v |-> c.v, err |-> c.err, calls |-> c.calls]
    /\ pc' = "records_converted"
    /\ UNCHANGED <<par, sh, t, r, todo, calls, ret, ft, fr, ftodo>>

\* Type.Parse(attrs) on a Type whose field c is backed by a nested Type or a
\* Slice; fc keeps the call of the chain of c.
ParseNested ==
    /\ pc = "start"
    /\ \E typ \in NestedTypes, attrs \in NestedMaps :
        /\ t' = typ
        /\ r' = TypeParse(typ, attrs)
        /\ \E c \in {FieldConvertValue(typ.fieldsByName["c"], Index(attrs, "c"))} :
            fc' = [name |-> "c", valueConverters |-> typ.fieldsByName["c"].valueConverters,
                   arg |-> Index(attrs, "c"), v |-> c.v, err |-> c.err, calls |-> c.calls]
    /\ pc' = "nested_parsed"
    /\ UNCHANGED <<par, sh, todo, calls, ret, ft, fr, ftodo>>

\* SingleLineString().ConvertValue(value), and again on its result.
ConvertLine ==
    /\ pc = "start"
    /\ \E value \in LineInputs :
        \E c \in {convertSlice(value, <<"SingleLineString", "SingleLineString">>)} :
            fc' = [name |-> "", valueConverters |-> <<"SingleLineString", "SingleLineString">>,
                   arg |-> value, v |-> c.v, err |-> c.err, calls |-> c.calls]
    /\ pc' = "line_converted"
    /\ UNCHANGED <<par, sh, t, r, todo, calls, ret, ft, fr, ftodo>>

\* Goroutines are started on one Type, each with a map of its caller.
GoStart ==
    /\ pc = "start"
    /\ \E typ \in ParTypes, heap \in [MapIds -> ParMaps], arg \in [Goroutines -> MapIds] :
        par' = [typ |-> typ, heap |-> heap, arg |-> arg,
                at |-> [g \in Goroutines |-> "idle"],
                rec |-> [g \in Goroutines |-> NoRecord],
                todo |-> [g \in Goroutines |-> {}]]
    /\ pc' = "concurrent"
    /\ UNCHANGED <<sh, t, r, todo, calls, ret, fc, ft, fr, ftodo>>

\* Type.Parse of goroutine g up to the loop over fieldsByName.
GoParseBegin ==
    /\ pc = "concurrent"
    /\ \E g \in Goroutines :
        /\ par.at[g] = "idle"
        /\ par' = GoNew(par, g)
    /\ UNCHANGED <<sh, pc, t, r, todo, calls, ret, fc, ft, fr, ftodo>>

\* One iteration of the loop of Type.Parse of goroutine g.
GoParseField ==
    /\ pc = "concurrent"
    /\ \E g \in Goroutines :
        /\ par.at[g] = "parsing"
        /\ \E name \in par.todo[g] : par' = GoStep(par, g, name)
    /\ UNCHANGED <<sh, pc, t, r, todo, calls, ret, fc, ft, fr, ftodo>>

\* Type.Parse of goroutine g returns its Record.
GoParseReturn ==
    /\ pc = "concurrent"
    /\ \E g \in Goroutines :
        /\ par.at[g] = "parsing"
        /\ par.todo[g] = {}
        /\ par' = [par EXCEPT !.at[g] = "returned"]
    /\ UNCHANGED <<sh, pc, t, r, todo, calls, ret, fc, ft, fr, ftodo>>

\* flex.NewShell()
NewShell ==
    /\ pc = "start"
    /\ sh' = NoShell
    /\ pc' = "shell"
    /\ UNCHANGED <<par, t, r, todo, calls, ret, fc, ft, fr, ftodo>>

\* Shell.Register(f)
Register ==
    /\ pc = "shell"
    /\ sh.at = "idle"
    /\ sh.serving = "no"
    /\ \E f \in Commands : sh' = [sh EXCEPT !.commands = (f.Name :> f) @@ @]
    /\ UNCHANGED <<par, pc, t, r, todo, calls, ret, fc, ft, fr, ftodo>>

\* Shell.Exec looks the command up and calls its Exec.
ShellExec ==
    /\ pc = "shell"
    /\ sh.at = "idle"
    /\ sh.serving = "no"
    /\ \E name \in ExecNames, params \in ExecParams : sh' = Lookup(sh, "Exec", name, params)
    /\ UNCHANGED <<par, pc, t, r, todo, calls, ret, fc, ft, fr, ftodo>>

\* Shell.ExecJSON looks the command up and calls its ExecJSON.
ShellExecJSON ==
    /\ pc = "shell"
    /\ sh.at = "idle"
    /\ sh.serving = "no"
    /\ \E name \in ExecNames, params \in ExecParams : sh' = Lookup(sh, "ExecJSON", name, params)
    /\ UNCHANGED <<par, pc, t, r, todo, calls, ret, fc, ft, fr, ftodo>>

\* Command.Exec or Command.ExecJSON parses the params and picks the handler.
CommandParse ==
    /\ pc = "shell"
    /\ sh.at = "parse"
    /\ \E p \in {parseParams(sh.cmd, sh.params)} : sh' = Parsed(sh, p)
    /\ UNCHANGED <<par, pc, t, r, todo, calls, ret, fc, ft, fr, ftodo>>

\* The handler is called with the parsed params and returns.
HandlerCall ==
    /\ pc = "shell"
    /\ sh.at \in {"ExecFunc", "ExecJSONFunc"}
    /\ sh' = [sh EXCEPT !.invoked = Append(@, [func |-> sh.at, params |-> sh.parsedParams]),
                        !.hres = Res(sh.cmd[sh.at].resp, sh.cmd[sh.at].err),
                        !.at = "handled"]
    /\ UNCHANGED <<par, pc, t, r, todo, calls, ret, fc, ft, fr, ftodo>>

\* Command.Exec or Command.ExecJSON turns the handler's result into its own.
CommandReturn ==
    /\ pc = "shell"
    /\ sh.at = "handled"
    /\ sh' = [sh EXCEPT !.out = IF sh.api = "Exec"
                                 THEN ExecResult(sh.invoked[1].func, sh.hres)
                                 ELSE ExecJSONResult(sh.invoked[1].func, sh.hres),
                        !.at = "returned"]
    /\ UNCHANGED <<par, pc, t, r, todo, calls, ret, fc, ft, fr, ftodo>>

\* JSONHandler.ServeHTTP builds the params and calls Shell.ExecJSON.
ServeHTTP ==
    /\ pc = "shell"
    /\ sh.at = "idle"
    /\ sh.serving = "no"
    /\ \E h \in JSONHandlers, fails \in BOOLEAN : sh' = ServeBegin(sh, h, ResponseWriter(fails))
    /\ UNCHANGED <<par, pc, t, r, todo, calls, ret, fc, ft, fr, ftodo>>

\* JSONHandler.ServeHTTP answers once Shell.ExecJSON has returned.
ServeHTTPReturn ==
    /\ pc = "shell"
    /\ sh.at = "returned"
    /\ sh.serving = "exec"
    /\ sh' = ServeEnd(sh)
    /\ UNCHANGED <<par, pc, t, r, todo, calls, ret, fc, ft, fr, ftodo>>

\* LessThan(x), LessThanOrEqual(x), GreaterThan(x) or GreaterThanOrEqual(x),
\* and ConvertValue(value) of the converter when there is one.
Compare ==
    /\ pc = "start"
    /\ \E op \in CompareOps, x \in CompareBounds, value \in CompareInputs :
        \E f \in {CompareFactory(op, x)} :
            IF f.panicked
            THEN /\ ret' = Ret(op, <<>>, TRUE, f.msg, x, NoVals)
                 /\ fc' = fc
                 /\ pc' = "compare_panicked"
            ELSE /\ ret' = Ret(op, <<>>, FALSE, "", x, NoVals)
                 /\ \E c \in {CompareConvert(op, f.dx, value)} :
                        fc' = [name |-> "", valueConverters |-> <<op>>, arg |-> value,
                               v |-> c.v, err |-> c.err, calls |-> <<Call(op, value, c)>>]
                 /\ pc' = "compared"
    /\ UNCHANGED <<par, sh, t, r, todo, calls, ft, fr, ftodo>>

\* MinLen(n).ConvertValue(value) or MaxLen(n).ConvertValue(value)
ConvertLen ==
    /\ pc = "start"
    /\ \E op \in {"MinLen", "MaxLen"}, n \in LenBounds, value \in LenInputs :
        /\ ret' = Ret(op, <<>>, FALSE, "", IntV(n), NoVals)
        /\ \E c \in {IF op = "MinLen" THEN MinLen(n, value) ELSE MaxLen(n, value)} :
               fc' = [name |-> "", valueConverters |-> <<op>>, arg |-> value,
                      v |-> c.v, err |-> c.err, calls |-> <<Call(op, value, c)>>]
    /\ pc' = "len_checked"
    /\ UNCHANGED <<par, sh, t, r, todo, calls, ft, fr, ftodo>>

\* json.Marshal of the Errors of the Record: Errors.MarshalJSON
MarshalJSON ==
    /\ pc = "nested_parsed"
    /\ \E out \in ErrorsMarshalJSON(r.errors) :
           ret' = Ret("MarshalJSON", <<>>, FALSE, "", BytesOf(out), NoVals)
    /\ pc' = "marshalled"
    /\ UNCHANGED <<par, sh, t, r, todo, calls, fc, ft, fr, ftodo>>

\* IfNotNil(chain...).ConvertValue(value) of package mp, and
\* IfDefined(chain...).ConvertValue(value) and
\* IfNotNil(chain...).ConvertValue(value) of package flex.
ConvertIf ==
    /\ pc = "start"
    /\ \E op \in {"IfNotNil", "flex.IfDefined", "flex.IfNotNil"}, chain \in IfChains, value \in IfValues :
        /\ op = "IfNotNil" => value # UndefinedValue
        /\ ret' = Ret(op, <<>>, FALSE, "", Nil, NoVals)
        /\ \E c \in {CASE op = "IfNotNil" -> IfNotNil(chain, value)
                        [] op = "flex.IfDefined" -> IfDefined(chain, value)
                        [] op = "flex.IfNotNil" -> FlexIfNotNil(chain, value)} :
               fc' = [name |-> "", valueConverters |-> chain, arg |-> value,
                      v |-> c.v, err |-> c.err, calls |-> c.calls]
    /\ pc' = "if_converted"
    /\ UNCHANGED <<par, sh, t, r, todo, calls, ft, fr, ftodo>>

Next ==
    \/ Construct
    \/ ParseBegin
    \/ ParseField
    \/ ParseReturn
    \/ Get
    \/ Pick
    \/ Errors
    \/ Attrs
    \/ ConvertField
    \/ FlexField
    \/ FlexNewBegin
    \/ FlexNewField
    \/ FlexNewReturn
    \/ FlexConvert
    \/ ConvertInt
    \/ ConvertSliceValue
    \/ ConvertRecordSlice
    \/ ParseNested
    \/ Reparse
    \/ ConvertLine
    \/ GoStart
    \/ GoParseBegin
    \/ GoParseField
    \/ GoParseReturn
    \/ NewShell
    \/ Register
    \/ ShellExec
    \/ ShellExecJSON
    \/ CommandParse
    \/ HandlerCall
    \/ CommandReturn
    \/ ServeHTTP
    \/ ServeHTTPReturn
    \/ Compare
    \/ ConvertLen
    \/ MarshalJSON
    \/ ConvertIf

Spec == Init /\ [][Next]_vars

(***************************************************************************)
(* Properties.                                                             *)
(***************************************************************************)
Declared == DOMAIN t.fieldsByName

ChainOf(name) == t.fieldsByName[name].valueConverters

\* The value Parse reads for a field: the input's value, nil for a missing key.
Raw(name) == IF name \in DOMAIN r.original.kv THEN r.original.kv[name] ELSE Nil

\* log is a run of chain on arg: the calls are those of the chain in list
\* order, each but the first is given the value the call before it returned,
\* every call but the last succeeded, and the run stops before the end of
\* the chain only after a call that failed.
ChainRun(chain, arg, log) ==
    /\ Len(log) <= Len(chain)
    /\ \A i \in 1..Len(log) :
        /\ log[i].vc = chain[i]
        /\ log[i].arg = IF i = 1 THEN arg ELSE log[i - 1].v
        /\ (i < Len(log) => log[i].err = NoErr)
    /\ (Len(log) < Len(chain) => log # <<>> /\ log[Len(log)].err # NoErr)

FirstError(log) == IF log = <<>> THEN NoErr ELSE log[Len(log)].err

StoppedEarly(chain, log) == Len(log) < Len(chain)

\* C1: the converters of a field's chain are applied in list order, each
\* receiving the output of the one before; after the first converter that
\* returns an error no later converter of the chain runs, and the error
\* recorded for the field is the error of that first failing converter.
C1_ChainOrderAndShortCircuit ==
    /\ pc = "converted" =>
        /\ ChainRun(fc.valueConverters, fc.arg, fc.calls)
        /\ fc.err = FirstError(fc.calls)
    /\ pc \in {"parsing", "parsed"} =>
        \A name \in DOMAIN calls :
            /\ ChainRun(ChainOf(name), Raw(name), calls[name])
            /\ IF FirstError(calls[name]) # NoErr
               THEN name \in DOMAIN r.errors /\ r.errors[name] = FirstError(calls[name])
               ELSE name \notin DOMAIN r.errors

C1_Witness ==
    /\ pc = "parsed"
    /\ \E name \in DOMAIN calls :
        /\ StoppedEarly(ChainOf(name), calls[name])
        /\ name \in DOMAIN r.errors

\* C2: after Parse every declared field name is a key of exactly one of the
\* record's converted map and errors map, and no other name is a key of
\* either map.
C2_ExactlyOneMap ==
    pc = "parsed" =>
        /\ \A name \in Declared : (name \in DOMAIN r.converted) # (name \in DOMAIN r.errors)
        /\ (DOMAIN r.converted) \cup (DOMAIN r.errors) \subseteq Declared

C2_Witness ==
    /\ pc = "parsed"
    /\ \E name \in Declared : name \in DOMAIN r.errors /\ name \in DOMAIN r.original.kv
    /\ \E name \in DOMAIN r.original.kv : name \notin Declared /\ r.original.kv[name] # Nil

\* C3: Parse is total and never fails fast: for every input map, the nil map
\* and maps with missing keys and bad values in several fields included,
\* every field visited so far was converted and recorded whether or not
\* another field failed, and the Record that Parse returns leaves no declared
\* field out and has the error of every field whose chain failed under that
\* field's own name.
C3_ParseTotalNoFailFast ==
    /\ pc \in {"parsing", "parsed"} =>
        /\ DOMAIN calls = Declared \ todo
        /\ (DOMAIN r.converted) \cup (DOMAIN r.errors) = Declared \ todo
    /\ pc = "parsed" =>
        /\ todo = {}
        /\ \A name \in Declared :
            FirstError(calls[name]) # NoErr =>
                name \in DOMAIN r.errors /\ r.errors[name] = FirstError(calls[name])

C3_Witness ==
    /\ pc = "parsed"
    /\ r.original.isnil
    /\ Cardinality(DOMAIN r.errors) = 2

Failing == {name \in Declared : FirstError(calls[name]) # NoErr}

\* C4: Record.Errors() returns nil exactly when no declared field's chain
\* failed; otherwise it returns the Errors value whose keys are the names
\* of the failing fields.
C4_ErrorsNilIffNoFailure ==
    ret.op = "Errors" =>
        /\ (ret.err = NoErr) <=> (Failing = {})
        /\ Failing # {} => ret.err.k = "Errors" /\ DOMAIN ret.err.m = Failing

C4_Witness ==
    /\ ret.op = "Errors"
    /\ ret.err # NoErr
    /\ Cardinality(Declared) = 2
    /\ Cardinality(DOMAIN ret.err.m) = 1

\* C5: Record.Get(name) panics with the error `"<name>" is not a field of
\* type` when name is not declared on the Type, also when name is a key of
\* the input map; for a declared name it does not panic and returns the
\* field's converted value (nil when the field has none).
C5_GetPanicsOnUndeclared ==
    ret.op = "Get" =>
        LET s == ret.keys[1]
        IN  IF s \in Declared
            THEN /\ ~ret.panicked
                 /\ ret.v = IF s \in DOMAIN r.converted THEN r.converted[s] ELSE Nil
            ELSE /\ ret.panicked
                 /\ ret.msg = "\"" \o s \o "\" is not a field of type"

C5_Witness ==
    /\ ret.op = "Get"
    /\ ret.panicked
    /\ ret.keys[1] \in DOMAIN r.original.kv

KeySet(keys) == {keys[i] : i \in 1..Len(keys)}

\* What Get returns for a declared name.
GetValue(s) == IF s \in DOMAIN r.converted THEN r.converted[s] ELSE Nil

PickPanics ==
    /\ ret.panicked
    /\ ret.m = NoVals
    /\ \E i \in 1..Len(ret.keys) :
        /\ ret.keys[i] \notin Declared
        /\ ret.msg = "\"" \o ret.keys[i] \o "\" is not a field of type"

\* C6 as stated: for names that are all declared, Pick returns a map whose
\* key set is exactly the given names, each mapped to the value Get returns
\* for it; with an undeclared name it panics naming that field and returns
\* no map.
C6_PickAllGivenNames ==
    ret.op = "Pick" =>
        IF KeySet(ret.keys) \subseteq Declared
        THEN /\ ~ret.panicked
             /\ DOMAIN ret.m = KeySet(ret.keys)
             /\ \A k \in DOMAIN ret.m : ret.m[k] = GetValue(k)
        ELSE PickPanics

\* C6 as amended: for names that are all declared, Pick returns a map whose
\* key set is the given names that have a converted value, that is those
\* whose chain did not fail, each mapped to the value Get returns for it (nil
\* for a field absent from the input); a given name whose chain failed is
\* left out; with an undeclared name Pick panics naming that field and
\* returns no map.
C6_PickConvertedNames ==
    ret.op = "Pick" =>
        IF KeySet(ret.keys) \subseteq Declared
        THEN /\ ~ret.panicked
             /\ DOMAIN ret.m = KeySet(ret.keys) \ DOMAIN r.errors
             /\ \A k \in DOMAIN ret.m : ret.m[k] = GetValue(k)
        ELSE PickPanics

C6_Witness ==
    /\ ret.op = "Pick"
    /\ ~ret.panicked
    /\ \E k \in KeySet(ret.keys) : k \in DOMAIN r.errors
    /\ \E k \in KeySet(ret.keys) : k \notin DOMAIN r.original.kv /\ k \in DOMAIN ret.m /\ ret.m[k] = Nil

NoConverters(name) == name \in Declared /\ ChainOf(name) = <<>>

\* C7: a field declared with no converters gets no error, and Get returns
\* the input map's value for its key unchanged; when the key is absent from
\* the input the field is still in Attrs() with the value nil; an input key
\* that is not a declared field is not in Attrs().
C7_NoConvertersIdentity ==
    /\ pc = "parsed" => \A name \in Declared : NoConverters(name) => name \notin DOMAIN r.errors
    /\ ret.op = "Get" /\ NoConverters(ret.keys[1]) =>
        /\ ~ret.panicked
        /\ ret.v = Raw(ret.keys[1])
    /\ ret.op = "Attrs" =>
        /\ \A name \in Declared :
            NoConverters(name) => name \in DOMAIN ret.m /\ ret.m[name] = Raw(name)
        /\ DOMAIN ret.m \subseteq Declared

C7_Witness ==
    /\ ret.op = "Attrs"
    /\ \E name \in Declared :
        NoConverters(name) /\ name \notin DOMAIN r.original.kv /\ ret.m[name] = Nil
    /\ (DOMAIN r.original.kv) \ Declared # {}

RequireRejects(arg, rejected) ==
    /\ (fc.err # NoErr) <=> (arg \in rejected)
    /\ fc.err = NoErr => fc.v = arg

\* C8: Require fails exactly for an absent (undefined) key, nil and the empty
\* string, and returns every other value, 0 and false included, unchanged
\* with no error; so a field with the chain [Require] whose key is missing
\* from the input map has an error under its name.
C8_RequireRejectsAbsentNilEmpty ==
    /\ pc = "converted" /\ fc.valueConverters = <<"Require">> =>
        RequireRejects(fc.arg, {Nil, Str(<<>>)})
    /\ pc = "flex_converted" /\ fc.valueConverters = <<"Require">> =>
        RequireRejects(fc.arg, {UndefinedValue, Nil, Str(<<>>)})
    /\ pc = "parsed" =>
        \A name \in Declared :
            ChainOf(name) = <<"Require">> /\ name \notin DOMAIN r.original.kv =>
                name \in DOMAIN r.errors
    /\ pc = "flex_made" =>
        \A name \in DOMAIN ft :
            ft[name].converters = <<"Require">> /\ name \notin DOMAIN fr.original.kv =>
                name \in DOMAIN fr.errors

C8_Witness ==
    /\ pc = "parsed"
    /\ \E name \in Declared :
        /\ ChainOf(name) = <<"Require">>
        /\ name \notin DOMAIN r.original.kv
        /\ name \in DOMAIN r.errors

\* nil, the empty string or a string of whitespace only
Blank(value) ==
    \/ value = Nil
    \/ value.k = "string" /\ \A i \in 1..Len(value.s) : value.s[i] \in {" ", "\t"}

RequireError == Err("cannot be nil or empty")

\* C9: each of Int64, Int32, Float64, Float32, Bool, Decimal, Time and UUID
\* returns nil with no error for nil, the empty string and a string of
\* whitespace only; with Require after it in the chain the same inputs make
\* the field fail with the error of Require.
C9_BlankIsNilForParsers ==
    /\ pc = "converted" /\ Blank(fc.arg) /\ fc.valueConverters # <<>> =>
        /\ Len(fc.valueConverters) = 1 /\ fc.valueConverters[1] \in ParsingConverters =>
            fc.v = Nil /\ fc.err = NoErr
        /\ Len(fc.valueConverters) = 2 /\ fc.valueConverters[1] \in ParsingConverters
           /\ fc.valueConverters[2] = "Require" =>
            fc.err = RequireError
    /\ pc = "parsed" =>
        \A name \in Declared :
            ChainOf(name) = <<"Int64", "Require">> /\ Blank(Raw(name)) =>
                name \in DOMAIN r.errors /\ r.errors[name] = RequireError

C9_Witness ==
    /\ pc = "converted"
    /\ Len(fc.valueConverters) = 2
    /\ fc.valueConverters[1] \in ParsingConverters
    /\ fc.valueConverters[2] = "Require"
    /\ fc.arg.k = "string"
    /\ fc.arg.s # <<>>
    /\ Blank(fc.arg)
    /\ fc.err = RequireError

FlexAbsent(name) == name \in DOMAIN ft /\ name \notin DOMAIN fr.original.kv

FlexNilGiven(name) ==
    name \in DOMAIN ft /\ name \in DOMAIN fr.original.kv /\ fr.original.kv[name] = Nil

\* C10: in package flex every type converter returns UndefinedValue as it is
\* with no error (and nil as nil); so for a key absent from the input the
\* chain [Int64] records no error and the field is not in the converted map,
\* and the chain [Int64, Require] records an error under the field's name;
\* an explicit nil is told apart from an absent key at the end of the chain:
\* under [Int64] it is converted to nil, under [Int64, Require] it fails with
\* another error than the absent key.
C10_UndefinedPassesThrough ==
    /\ pc = "flex_converted" /\ Len(fc.valueConverters) = 1
       /\ fc.valueConverters[1] \in FlexTypeConverters /\ fc.arg \in {UndefinedValue, Nil} =>
        fc.v = fc.arg /\ fc.err = NoErr
    /\ pc = "flex_made" =>
        \A name \in DOMAIN ft :
            /\ ft[name].converters = <<"Int64">> /\ FlexAbsent(name) =>
                name \notin DOMAIN fr.errors /\ name \notin DOMAIN fr.converted
            /\ ft[name].converters = <<"Int64">> /\ FlexNilGiven(name) =>
                name \notin DOMAIN fr.errors /\ name \in DOMAIN fr.converted /\ fr.converted[name] = Nil
            /\ ft[name].converters = <<"Int64", "Require">> /\ FlexAbsent(name) =>
                name \in DOMAIN fr.errors /\ fr.errors[name] = Err("must be defined")
            /\ ft[name].converters = <<"Int64", "Require">> /\ FlexNilGiven(name) =>
                name \in DOMAIN fr.errors /\ fr.errors[name] = Err("cannot be nil")

C10_Witness ==
    /\ pc = "flex_made"
    /\ \E name \in DOMAIN ft :
        ft[name].converters = <<"Int64", "Require">> /\ FlexAbsent(name) /\ name \in DOMAIN fr.errors
    /\ \E name \in DOMAIN ft :
        ft[name].converters = <<"Int64">> /\ FlexAbsent(name) /\ name \notin DOMAIN fr.converted

\* The integer an input of ConvertInt denotes, as decimal text.
Denotes(value) == IF value.k = "string" THEN Canon(TrimSpace(value.s)) ELSE value.s

\* C11: for Int64 and Int32 an input that denotes an integer inside the
\* target width's range, as a native integer of any width or as a decimal
\* string, converts to exactly that integer, and an input that denotes an
\* integer outside the range yields the error "less than minimum allowed
\* number" or "greater than maximum allowed number", never another error or
\* a value.
C11_IntRangeErrors ==
    pc = "int_converted" =>
        LET x == Denotes(fc.arg)
            wide == fc.valueConverters[1] = "Int64"
            lo == IF wide THEN MinInt64 ELSE MinInt32
            hi == IF wide THEN MaxInt64 ELSE MaxInt32
        IN  IF Less(x, lo) THEN fc.err = Err("less than minimum allowed number")
            ELSE IF Less(hi, x) THEN fc.err = Err("greater than maximum allowed number")
            ELSE /\ fc.err = NoErr
                 /\ fc.v = WideV(IF wide THEN "int64" ELSE "int32", x)

\* The Slice converter that fc holds.
SliceOf == CHOOSE sc \in SliceConverters : sc.vc = fc.valueConverters[1]

\* C12: Slice[T](c) on a []any applies c to every element whatever the
\* earlier elements did; for every element k that fails the error lists an
\* entry with index k and that element's error; on success the result is a
\* []T of the same length with the converted elements in input order; nil
\* gives nil, a []T is returned as it is, any other input fails.
C12_SliceAllElements ==
    pc = "slice_converted" =>
        IF fc.arg = Nil THEN fc.v = Nil /\ fc.err = NoErr
        ELSE IF fc.arg.k = "[]" \o SliceOf.T THEN fc.v = fc.arg /\ fc.err = NoErr
        ELSE IF fc.arg.k = "[]any"
             THEN /\ Len(fc.calls) = Len(fc.arg.e)
                  /\ \A i \in 1..Len(fc.arg.e) :
                        /\ fc.calls[i].arg = fc.arg.e[i]
                        /\ Res(fc.calls[i].v, fc.calls[i].err)
                             = ConvertValue(SliceOf.elementConverter, fc.arg.e[i])
                        /\ fc.calls[i].err # NoErr =>
                             /\ fc.err.k = "sliceElementErrors"
                             /\ \E j \in 1..Len(fc.err.l) :
                                    fc.err.l[j] = sliceElementError(i - 1, fc.calls[i].err)
                  /\ fc.err = NoErr =>
                        fc.v = SliceV("[]" \o SliceOf.T, [i \in 1..Len(fc.arg.e) |-> fc.calls[i].v])
             ELSE fc.err # NoErr /\ fc.v = Nil

C12_Witness ==
    /\ pc = "slice_converted"
    /\ fc.arg.k = "[]any"
    /\ Len(fc.arg.e) >= 2
    /\ fc.calls[1].err # NoErr
    /\ fc.calls[2].err # NoErr
    /\ \E j \in 1..Len(fc.err.l) : fc.err.l[j].Index = 1

\* The error of element i of a []any given to RecordSlice: NoErr for a map
\* that the element Type takes without errors.
ElementError(i) ==
    IF fc.arg.e[i].k = "map" THEN RecordErrors(SoftTypeNew(SoftChildType, MapOf(fc.arg.e[i].m)))
    ELSE Err("cannot convert to element " \o ToString(i - 1) \o " to record")

\* C13: RecordSlice(t) on a []any attempts every element: it succeeds, with
\* one Record per element in input order, exactly when every element is a
\* map that t takes without errors; otherwise it fails with a composite error
\* that lists every failing index, elements that are no maps as well as maps
\* with field errors, and does not stop at the first bad element.
C13_RecordSliceAllElements ==
    pc = "records_converted" /\ fc.arg.k = "[]any" =>
        LET bad == {i \in 1..Len(fc.arg.e) : ElementError(i) # NoErr}
        IN  /\ (fc.err = NoErr) = (bad = {})
            /\ fc.err = NoErr =>
                  fc.v = SliceV("[]*Record",
                                [i \in 1..Len(fc.arg.e) |->
                                    RecordV(SoftTypeNew(SoftChildType, MapOf(fc.arg.e[i].m)))])
            /\ bad # {} =>
                  /\ fc.err.k = "sliceElementErrors"
                  /\ \A i \in bad : \E j \in 1..Len(fc.err.l) : fc.err.l[j].Index = i - 1
                  /\ \A i \in 1..Len(fc.arg.e) :
                        fc.arg.e[i].k = "map" => \E j \in 1..Len(fc.calls) : fc.calls[j].arg = fc.arg.e[i]

\* The error of the field n of the child Type for the map kv.
ChildFieldError(kv) == convertSlice(Index(MapOf(kv), "n"), <<"Int32", "Require">>).err

\* C14: a Type as the converter of a field: nil gives nil and no error; a map
\* gives the Record of Parse when no child field fails, and otherwise a nil
\* value with the Errors that hold exactly the child's field errors; any
\* other value fails.  So the parent field is in the parent's errors exactly
\* when the value is neither nil nor a map, or a child field fails.
C14_TypeAsConverter ==
    pc = "nested_parsed" /\ fc.valueConverters = <<"Child">> =>
        /\ fc.arg = Nil => fc.v = Nil /\ fc.err = NoErr
        /\ fc.arg.k = "map" /\ ChildFieldError(fc.arg.m) = NoErr =>
              /\ fc.err = NoErr
              /\ fc.v.k = "*Record"
              /\ fc.v.m.original = MapOf(fc.arg.m)
              /\ DOMAIN fc.v.m.converted = {"n"}
              /\ fc.v.m.errors = NoErrs
        /\ fc.arg.k = "map" /\ ChildFieldError(fc.arg.m) # NoErr =>
              /\ fc.v = Nil
              /\ fc.err = ErrorsV("n" :> ChildFieldError(fc.arg.m))
        /\ fc.arg.k \notin {"nil", "map"} => fc.v = Nil /\ fc.err = Err("cannot convert to record")
        /\ ("c" \in DOMAIN r.errors)
             = \/ fc.arg.k \notin {"nil", "map"}
               \/ fc.arg.k = "map" /\ ChildFieldError(fc.arg.m) # NoErr
        /\ "c" \in DOMAIN r.errors => r.errors["c"] = fc.err
        /\ "c" \notin DOMAIN r.errors => r.converted["c"] = fc.v

C14_Witness ==
    /\ pc = "nested_parsed"
    /\ fc.valueConverters = <<"Child">>
    /\ fc.arg.k = "map"
    /\ "c" \in DOMAIN r.errors
    /\ r.errors["c"].k = "Errors"
    /\ "n" \in DOMAIN r.errors["c"].m

HoldsRecord == \E name \in DOMAIN r.converted : r.converted[name].k = "*Record"

C16_SingleLineIdempotent ==
    pc = "line_converted" /\ fc.arg.k = "string" =>
        /\ Len(fc.calls) = 2
        /\ fc.calls[1].arg = fc.arg
        /\ fc.calls[2].arg = fc.calls[1].v
        /\ fc.calls[2].v = fc.calls[1].v
        /\ fc.err = NoErr
        /\ LET out == fc.calls[1].v.s
           IN  /\ fc.calls[1].v.k = "string"
               /\ out # <<>> => ~IsSpace(out[1]) /\ ~IsSpace(out[Len(out)])
               /\ \A i \in 1..Len(out) : IsPrint(out[i])

C16_Witness ==
    /\ pc = "line_converted"
    /\ fc.arg.k = "string"
    /\ Len(fc.arg.s) = 3
    /\ fc.arg.s[1] = "xFE"
    /\ fc.arg.s[2] = "a"
    /\ fc.arg.s[3] = "u200B"
    /\ fc.v = Str(<<"a">>)

\* C17: the Record of Parse does not depend on the order in which the fields
\* are visited: whatever fields were visited before, the entry of a visited
\* field is the result of its own chain on its own input value, and the
\* Record that Parse returns is the one that the visit in a fixed order gives.
C17_OrderIndependent ==
    /\ pc \in {"parsing", "parsed"} =>
          \A name \in Declared \ todo :
              LET c == convertSlice(Index(r.original, name), ChainOf(name))
              IN  IF c.err = NoErr
                  THEN /\ name \notin DOMAIN r.errors
                       /\ name \in DOMAIN r.converted
                       /\ r.converted[name] = c.v
                  ELSE /\ name \notin DOMAIN r.converted
                       /\ name \in DOMAIN r.errors
                       /\ r.errors[name] = c.err
    /\ pc = "parsed" => r = TypeParse(t, r.original)

C17_Witness ==
    /\ pc = "parsing"
    /\ Declared = {"a", "b"}
    /\ todo = {CHOOSE n \in Declared : TRUE}
    /\ DOMAIN r.errors = Declared \ todo
    /\ ChainOf(CHOOSE n \in Declared : TRUE) = <<"Int64">>

\* C18: calls of Parse running at the same time on one Type share nothing
\* they write.  No step of a call changes the Type or a caller's map, a step
\* changes the Record of the call that takes it and of no other call, and
\* the Record a call returns is the one Parse gives for its map on its own.
C18_StepWritesOwnRecord ==
    pc = "concurrent" /\ pc' = "concurrent" =>
        /\ par'.typ = par.typ
        /\ par'.heap = par.heap
        /\ par'.arg = par.arg
        /\ \A g \in Goroutines :
              (par'.at[g] = par.at[g] /\ par'.todo[g] = par.todo[g]) => par'.rec[g] = par.rec[g]

C18_ReturnsAsAlone ==
    pc = "concurrent" =>
        \A g \in Goroutines :
            par.at[g] = "returned" => par.rec[g] = TypeParse(par.typ, par.heap[par.arg[g]])

C18_ConcurrentParse == [][C18_StepWritesOwnRecord]_vars /\ []C18_ReturnsAsAlone

\* Two calls on the same map, interleaved: the second was in its loop, one
\* field visited, when the first returned a Record with an error.
C18_Witness ==
    /\ pc = "concurrent"
    /\ par.arg[1] = par.arg[2]
    /\ par.at[1] = "returned"
    /\ par.at[2] = "parsing"
    /\ Cardinality(par.todo[2]) = 1
    /\ DOMAIN par.rec[1].errors # {}
    /\ DOMAIN par.rec[2].errors \cup DOMAIN par.rec[2].converted # {}

\* C19: a Shell.Exec or Shell.ExecJSON goes lookup, parse, handler.  A name
\* that is not registered ends the call with "command not found" and a
\* params map that the command's Type reports errors for ends it with an
\* error that wraps that aggregate in a "failed to parse params" context; in
\* both cases no handler has been called.  A handler is called at most
\* once, only for a registered command and with the Record parsed without
\* errors; a command without a params Type has its handler called and does
\* not fail in the parse step.
Registered == sh.name \in DOMAIN sh.commands

ParamsErrors ==
    IF sh.commands[sh.name].ParamsType.isnil THEN NoErr
    ELSE FlexRecordErrors(FlexTypeNew(sh.commands[sh.name].ParamsType.fields, sh.params))

RECURSIVE Wraps(_, _)
Wraps(err, inner) == err = inner \/ (err.k = "wrapError" /\ Wraps(err.l[1], inner))

HasHandler == ~sh.commands[sh.name].ExecFunc.isnil \/ ~sh.commands[sh.name].ExecJSONFunc.isnil

C19_LookupParseHandler ==
    (pc = "shell" /\ sh.at # "idle") =>
        /\ ~Registered =>
              /\ sh.at = "returned"
              /\ sh.out.err = Err("command not found: " \o sh.name)
              /\ sh.invoked = <<>>
        /\ (Registered /\ ParamsErrors # NoErr) =>
              /\ sh.invoked = <<>>
              /\ sh.at \in {"parse", "returned"}
              /\ sh.at = "returned" =>
                    /\ sh.out.err.k = "wrapError"
                    /\ sh.out.err.msg = "failed to parse params"
                    /\ Wraps(sh.out.err, ParamsErrors)
        /\ sh.invoked # <<>> =>
              /\ Len(sh.invoked) = 1
              /\ Registered
              /\ ParamsErrors = NoErr
              /\ sh.invoked[1].params =
                    IF sh.cmd.ParamsType.isnil THEN NilRecord
                    ELSE RecordOf(FlexTypeNew(sh.cmd.ParamsType.fields, sh.params))
        /\ (Registered /\ sh.commands[sh.name].ParamsType.isnil /\ HasHandler /\ sh.at = "returned") =>
              /\ Len(sh.invoked) = 1
              /\ sh.out.err \in {NoErr, sh.hres.err} \/ sh.out.err.k \in {"json.SyntaxError", "json.UnmarshalTypeError", "json.UnsupportedTypeError"}

\* A command with both handlers whose Type rejects the params has returned.
C19_Witness ==
    /\ pc = "shell"
    /\ sh.at = "returned"
    /\ Registered
    /\ ParamsErrors # NoErr
    /\ ~sh.cmd.ExecFunc.isnil
    /\ ~sh.cmd.ExecJSONFunc.isnil
    /\ sh.out.err.k = "wrapError"

\* C20: Command.Exec of a command that has only ExecJSONFunc returns the
\* map the handler's bytes unmarshal to, and a nil map without an error
\* when the bytes are nil or of length zero; Command.ExecJSON of a command
\* that has only ExecFunc returns the handler's map marshalled, and nil
\* bytes without an error when the map is nil.
HandlerReturned == pc = "shell" /\ sh.at = "returned" /\ sh.invoked # <<>> /\ sh.hres.err = NoErr

OnlyExecJSONFunc == sh.cmd.ExecFunc.isnil /\ ~sh.cmd.ExecJSONFunc.isnil

OnlyExecFunc == ~sh.cmd.ExecFunc.isnil /\ sh.cmd.ExecJSONFunc.isnil

C20_ExecJSONMarshals ==
    (HandlerReturned /\ sh.api = "ExecJSON" /\ OnlyExecFunc) =>
        sh.out = IF sh.hres.v = NilMapV THEN Res(NilBytes, NoErr) ELSE Marshal(sh.hres.v)

C20_ResultConversion ==
    /\ (HandlerReturned /\ sh.api = "Exec" /\ OnlyExecJSONFunc) =>
          sh.out = IF sh.hres.v = NilBytes \/ Len(sh.hres.v.s) = 0
                   THEN Res(NilMapV, NoErr)
                   ELSE Unmarshal(sh.hres.v.s)
    /\ C20_ExecJSONMarshals


(***************************************************************************)
(* C21: JSONHandler.ServeHTTP.  When building the params and executing     *)
(* the command both succeed, it writes status 204 and no body if the       *)
(* result of ExecJSON is empty, and otherwise hands the result bytes to    *)
(* Write once, with Content-Type application/json; without a               *)
(* ParamsBuilder the command runs with nil params and nothing fails for    *)
(* that; when building the params or executing fails, ServeHTTP itself     *)
(* writes no status, header or body, and an ErrorHandler that is set is    *)
(* called exactly once, with a BuildParamsError or an ExecError around     *)
(* the error.                                                              *)
(***************************************************************************)
Served == sh.serving \in {"served", "panicked"}

Untouched(w) == w.Code = 0 /\ DOMAIN w.Header = {} /\ w.Body = NilBytes /\ w.writes = <<>>

BuildFailed == buildParams(sh.h).err # NoErr

ExecCalled == sh.api = "ExecJSON" /\ sh.name = sh.h.CommandName

C21_ServeHTTP ==
    Served =>
        /\ sh.h.ParamsBuilder.isnil => ~BuildFailed /\ ExecCalled /\ sh.params = NilMap
        /\ BuildFailed =>
               /\ sh.api = "" /\ sh.invoked = <<>>
               /\ Untouched(sh.w)
               /\ sh.h.ErrorHandler =>
                      sh.handled = <<BuildParamsError(sh.h.CommandName, buildParams(sh.h).err)>>
        /\ ~BuildFailed =>
               /\ ExecCalled /\ sh.params = buildParams(sh.h).v
               /\ sh.out.err # NoErr =>
                      /\ Untouched(sh.w)
                      /\ sh.h.ErrorHandler =>
                             sh.handled = <<ExecError(sh.h.CommandName, sh.out.err)>>
               /\ sh.out.err = NoErr /\ Len(sh.out.v.s) = 0 =>
                      /\ sh.w.Code = 204 /\ sh.w.Body = NilBytes /\ sh.w.writes = <<>>
                      /\ sh.handled = <<>> /\ sh.serving = "served"
               /\ sh.out.err = NoErr /\ Len(sh.out.v.s) > 0 =>
                      /\ sh.w.writes = <<sh.out.v>>
                      /\ sh.w.Header = ("Content-Type" :> "application/json")
                      /\ ~sh.w.fails => sh.w.Body = sh.out.v /\ sh.w.Code = 200 /\ sh.handled = <<>>

\* ServeHTTP without a ParamsBuilder has answered 204 for a command whose
\* handler returned bytes that are empty and not nil.
C21_Witness ==
    /\ Served
    /\ sh.h.ParamsBuilder.isnil
    /\ sh.invoked # <<>>
    /\ sh.out = Res(BytesOf(<<>>), NoErr)
    /\ sh.w.Code = 204

(***************************************************************************)
(* C22: when ServeHTTP hits an error (building the params, executing or    *)
(* writing) and no ErrorHandler is set, it panics with an error whose      *)
(* message is "missing error handler: " followed by the message of the     *)
(* BuildParamsError, ExecError or WriteError around the error.             *)
(***************************************************************************)
\* The error ServeHTTP ran into, NoErr if none.
HitError ==
    IF BuildFailed THEN BuildParamsError(sh.h.CommandName, buildParams(sh.h).err)
    ELSE IF sh.out.err # NoErr THEN ExecError(sh.h.CommandName, sh.out.err)
    ELSE IF sh.w.writes # <<>> /\ sh.w.fails THEN WriteError(sh.h.CommandName, Err("write failed"))
    ELSE NoErr

C22_PanicsMissingHandler ==
    (Served /\ ~sh.h.ErrorHandler /\ HitError # NoErr) =>
        /\ sh.serving = "panicked"
        /\ \E x \in ErrorTexts(HitError) : sh.panic.msg = "missing error handler: " \o x

(***************************************************************************)
(* C23: LessThan(x), LessThanOrEqual(x), GreaterThan(x) and                *)
(* GreaterThanOrEqual(x).  A bound that is not a number makes the factory  *)
(* panic and no converter runs.  The converter returns nil without an      *)
(* error for nil; for an input that is a number it succeeds exactly when   *)
(* the number stands in the relation to x (a number equal to x passes      *)
(* only the OrEqual variants) and then returns the input itself; a         *)
(* violation fails with "too large" for the Less variants and "too small"  *)
(* for the Greater variants.                                               *)
(***************************************************************************)
\* The number a value is, in halves; a set with no element if it is none.
NumberOf(value) ==
    IF value.k \in {"decimal", "float32", "float64"} THEN {value.n}
    ELSE IF value.k \in IntKinds THEN {2 * IntOf(value.s)}
    ELSE IF value.k = "string"
    THEN {n \in {-22, 18, 20, 21, 22} : value.s = HalvesText(n)}
    ELSE {}

Holds(op, n, x) ==
    CASE op = "LessThan" -> n < x
      [] op = "LessThanOrEqual" -> n <= x
      [] op = "GreaterThan" -> n > x
      [] op = "GreaterThanOrEqual" -> n >= x

C23_CompareWithBound ==
    /\ pc = "compare_panicked" =>
          /\ NumberOf(ret.v) = {}
          /\ ret.panicked
          /\ fc = NoFieldCall
    /\ pc = "compared" =>
          /\ NumberOf(ret.v) # {}
          /\ ~ret.panicked
          /\ fc.arg = Nil => fc.v = Nil /\ fc.err = NoErr
          /\ \A n \in NumberOf(fc.arg), x \in NumberOf(ret.v) :
                IF Holds(ret.op, n, x)
                THEN fc.v = fc.arg /\ fc.err = NoErr
                ELSE /\ fc.v = Nil
                     /\ fc.err = Err(IF ret.op \in {"LessThan", "LessThanOrEqual"}
                                     THEN "too large" ELSE "too small")

\* LessThan with the bound 10 as text has rejected the int 10 as too large.
C23_Witness ==
    /\ pc = "compared"
    /\ ret.op = "LessThan"
    /\ ret.v = Str(<<"1", "0">>)
    /\ fc.arg = IntV(10)
    /\ fc.err = Err("too large")

(***************************************************************************)
(* C24: MinLen(n) fails with "too short" exactly when the length of a      *)
(* string, slice or map input is less than n, MaxLen(n) fails with "too    *)
(* long" exactly when the length is greater than n, so a length of         *)
(* exactly n passes both; nil gives nil without an error for both; an      *)
(* input that has no length fails; on success the input is returned        *)
(* unchanged.  The length is Go's len: bytes of a string, elements of a    *)
(* slice, keys of a map.                                                   *)
(***************************************************************************)
\* The length of a value; a set with no element if it has none.
LengthOf(value) ==
    IF value.k = "string"
    THEN {Len(value.s) + 2 * Cardinality({i \in 1..Len(value.s) : value.s[i] = "u200B"})}
    ELSE IF value.k \in {"[]any", "[]int32", "[]string", "[]*Record"} THEN {Len(value.e)}
    ELSE IF value.k = "bytes" THEN {value.n}
    ELSE IF value.k \in {"map", "map(nil)"} THEN {Cardinality(DOMAIN value.m)}
    ELSE {}

C24_LengthBounds ==
    pc = "len_checked" =>
        LET n == IntOf(ret.v.s)
            fails == fc.err # NoErr
        IN  /\ fails => fc.v = Nil
            /\ ~fails => fc.v = fc.arg
            /\ fc.arg = Nil => ~fails
            /\ fc.arg # Nil /\ LengthOf(fc.arg) = {} => fails /\ fc.err \notin {Err("too short"), Err("too long")}
            /\ \A l \in LengthOf(fc.arg) :
                  /\ ret.op = "MinLen" => (fails <=> l < n) /\ (fails => fc.err = Err("too short"))
                  /\ ret.op = "MaxLen" => (fails <=> l > n) /\ (fails => fc.err = Err("too long"))

\* MinLen(3) has let a slice of three elements pass.
C24_Witness ==
    /\ pc = "len_checked"
    /\ ret.op = "MinLen"
    /\ ret.v = IntV(3)
    /\ fc.arg.k = "[]int32"
    /\ Len(fc.arg.e) = 3
    /\ fc.v = fc.arg
    /\ fc.err = NoErr

(***************************************************************************)
(* C25: Errors.MarshalJSON gives a JSON object with exactly one key for    *)
(* each field that failed; the value of a key is the JSON object of the    *)
(* error's own MarshalJSON when the error is the Errors of a child Type,   *)
(* and otherwise the error's message as a JSON string; an Errors without   *)
(* entries gives {} and never null.                                        *)
(***************************************************************************)
NoObject == [ok |-> FALSE, kv |-> <<>>, next |-> 0]

\* The JSON object that starts at buf[i], read back: each key once, with a
\* string or an object as its value.
RECURSIVE ObjectAt(_, _)
RECURSIVE MembersAt(_, _, _)
ObjectAt(buf, i) ==
    IF i + 1 > Len(buf) \/ buf[i] # "{" THEN NoObject
    ELSE IF buf[i + 1] = "}" THEN [ok |-> TRUE, kv |-> <<>>, next |-> i + 2]
    ELSE MembersAt(buf, i + 1, <<>>)

MembersAt(buf, i, kv) ==
    IF i + 4 > Len(buf) \/ buf[i] # "\"" \/ buf[i + 2] # "\"" \/ buf[i + 3] # ":" \/ buf[i + 1] \in DOMAIN kv
    THEN NoObject
    ELSE LET val == IF buf[i + 4] = "{"
                    THEN LET o == ObjectAt(buf, i + 4)
                         IN  [ok |-> o.ok, v |-> [object |-> TRUE, text |-> "", kv |-> o.kv], next |-> o.next]
                    ELSE IF buf[i + 4] = "\"" /\ i + 6 <= Len(buf) /\ buf[i + 6] = "\""
                    THEN [ok |-> TRUE, v |-> [object |-> FALSE, text |-> buf[i + 5], kv |-> <<>>], next |-> i + 7]
                    ELSE [ok |-> FALSE, v |-> [object |-> FALSE, text |-> "", kv |-> <<>>], next |-> 0]
             now == (buf[i + 1] :> val.v) @@ kv
         IN  IF ~val.ok \/ val.next > Len(buf) THEN NoObject
             ELSE IF buf[val.next] = "}" THEN [ok |-> TRUE, kv |-> now, next |-> val.next + 1]
             ELSE IF buf[val.next] = "," THEN MembersAt(buf, val.next + 1, now)
             ELSE NoObject

\* kv is what the Errors e serializes to.
RECURSIVE Renders(_, _)
Renders(kv, e) ==
    /\ DOMAIN kv = DOMAIN e
    /\ \A attr \in DOMAIN e :
          IF e[attr].k = "Errors"
          THEN kv[attr].object /\ Renders(kv[attr].kv, e[attr].m)
          ELSE ~kv[attr].object /\ kv[attr].text \in ErrorTexts(e[attr])

C25_ErrorsMarshalJSON ==
    pc = "marshalled" =>
        LET o == ObjectAt(ret.v.s, 1)
        IN  /\ ret.v.k = "[]byte"
            /\ o.ok
            /\ o.next = Len(ret.v.s) + 1
            /\ Renders(o.kv, r.errors)
            /\ DOMAIN r.errors = {} => ret.v.s = <<"{", "}">>

\* An Errors with a plain error and the Errors of a child Type has been
\* serialized.
C25_Witness ==
    /\ pc = "marshalled"
    /\ DOMAIN r.errors = {"a", "c"}
    /\ r.errors["a"].k = "error"
    /\ r.errors["c"].k = "Errors"
    /\ ret.v.s = <<"{", "\"", "a", "\"", ":", "\"", "not a valid number", "\"", ",",
                   "\"", "c", "\"", ":", "{", "\"", "n", "\"", ":", "\"", "not a valid number", "\"", "}", "}">>

(***************************************************************************)
(* C26: IfNotNil(chain) returns nil without an error and runs no converter *)
(* of chain when its input is nil; for every other input it applies chain  *)
(* in order, each converter on the output of the one before, stops at the  *)
(* first error, and returns the last output and that error.  flex's        *)
(* IfDefined(chain) does the same with UndefinedValue in place of nil, so  *)
(* IfDefined runs chain on nil and IfNotNil runs chain on UndefinedValue.  *)
(***************************************************************************)
\* The value the wrapper of the call lets pass.
Skipped == IF ret.op = "flex.IfDefined" THEN UndefinedValue ELSE Nil

\* What the converter vc of the wrapper's package returns for arg.
Applied(vc, arg) ==
    IF ret.op = "IfNotNil" THEN ConvertValue(vc, arg) ELSE FlexConvertValue(vc, arg)

C26_ConditionalChains ==
    pc = "if_converted" =>
        IF fc.arg = Skipped
        THEN fc.v = Skipped /\ fc.err = NoErr /\ fc.calls = <<>>
        ELSE /\ ChainRun(fc.valueConverters, fc.arg, fc.calls)
             /\ \A i \in 1..Len(fc.calls) :
                   LET c == Applied(fc.calls[i].vc, fc.calls[i].arg)
                   IN  fc.calls[i].v = c.v /\ fc.calls[i].err = c.err
             /\ fc.err = FirstError(fc.calls)
             /\ fc.v = IF fc.calls = <<>> THEN fc.arg ELSE fc.calls[Len(fc.calls)].v

\* flex's IfDefined has run Require on nil, which failed.
C26_IfDefinedRunsOnNil ==
    /\ pc = "if_converted"
    /\ ret.op = "flex.IfDefined"
    /\ fc.arg = Nil
    /\ fc.valueConverters = <<"Require", "Int64">>
    /\ Len(fc.calls) = 1
    /\ fc.err # NoErr

\* Package mp's IfNotNil has let nil pass a chain that begins with Require.
C26_Witness ==
    /\ pc = "if_converted"
    /\ ret.op = "IfNotNil"
    /\ fc.arg = Nil
    /\ fc.valueConverters = <<"Require", "Int64">>
    /\ fc.calls = <<>>

(***************************************************************************)
(* C27: when a Type is built with two fields of the same name, the later   *)
(* one replaces the earlier one without any report: NewType returns the    *)
(* Type with one field for the name, Parse runs only the chain of the      *)
(* last field of that name, and the Record holds one entry for the name,   *)
(* the result of that chain.                                               *)
(***************************************************************************)
\* The fields given to NewType that a later field of the same name follows.
Replaced == {i \in 1..Len(t.fields) : \E j \in (i + 1)..Len(t.fields) : t.fields[j].name = t.fields[i].name}

\* The fields given to NewType that no later field of the same name follows.
Lasting == (1..Len(t.fields)) \ Replaced

C27_DuplicateFieldLastWins ==
    /\ pc \in {"ready", "parsing", "parsed"} =>
          /\ Cardinality(DOMAIN t.fieldsByName) = Cardinality(Lasting)
          /\ \A j \in Lasting : t.fieldsByName[t.fields[j].name] = t.fields[j]
    /\ pc = "parsed" =>
          \A j \in Lasting :
              LET name == t.fields[j].name
                  c == convertSlice(Raw(name), t.fields[j].valueConverters)
              IN  /\ name \in DOMAIN calls
                  /\ ChainRun(t.fields[j].valueConverters, Raw(name), calls[name])
                  /\ Len(calls[name]) <= Len(t.fields[j].valueConverters)
                  /\ IF c.err = NoErr
                     THEN /\ name \notin DOMAIN r.errors
                          /\ name \in DOMAIN r.converted /\ r.converted[name] = c.v
                     ELSE /\ name \notin DOMAIN r.converted
                          /\ name \in DOMAIN r.errors /\ r.errors[name] = c.err

\* Parse of a Type given the field a with Require and then the field a
\* without converters has let a missing a pass.
C27_Witness ==
    /\ pc = "parsed"
    /\ Len(t.fields) = 2
    /\ t.fields[1] = NewField("a", <<"Require">>)
    /\ t.fields[2] = NewField("a", <<>>)
    /\ "a" \notin DOMAIN r.original.kv
    /\ DOMAIN r.errors = {}
    /\ DOMAIN r.converted = {"a"}

(***************************************************************************)
(* C28: in the error Slice[T] returns for a []any, the index of each       *)
(* element that failed appears exactly once, and the entries are in        *)
(* ascending order of index.                                               *)
(***************************************************************************)
\* Slice was given a []any and returned its list of element errors.
SliceFailed == pc = "slice_converted" /\ fc.arg.k = "[]any" /\ fc.err.k = "sliceElementErrors"

C28_SliceErrorIndexOnce ==
    SliceFailed =>
        /\ \A j \in 1..(Len(fc.err.l) - 1) : fc.err.l[j].Index < fc.err.l[j + 1].Index
        /\ \A i \in 1..Len(fc.calls) :
              fc.calls[i].err # NoErr =>
                  Cardinality({j \in 1..Len(fc.err.l) : fc.err.l[j].Index = i - 1}) = 1

(***************************************************************************)
(* C29: every entry of the error Slice[T] returns carries an error that is *)
(* not nil: an index is listed only when the element converter returned    *)
(* an error for that element, so a []any fails only if the conversion of   *)
(* some element returned an error.                                         *)
(***************************************************************************)
C29_SliceErrorEntriesNonNil ==
    /\ SliceFailed =>
          \A j \in 1..Len(fc.err.l) :
              /\ fc.err.l[j].Err # NoErr
              /\ fc.calls[fc.err.l[j].Index + 1].err # NoErr
    /\ (pc = "slice_converted" /\ fc.arg.k = "[]any" /\ fc.err # NoErr) =>
          \E i \in 1..Len(fc.calls) : fc.calls[i].err # NoErr

(***************************************************************************)
(* C30: every built-in converter of package mp, UUID among them, returns   *)
(* a nil value whenever it returns an error, so a chain that fails gives   *)
(* no value with its error, and Get of a declared field whose conversion   *)
(* failed returns nil.                                                     *)
(***************************************************************************)
\* fc holds a call of converters of package mp.
MpCall ==
    \/ pc \in {"converted", "int_converted", "slice_converted", "nested_parsed", "line_converted",
                "compared", "len_checked"}
    \/ pc = "if_converted" /\ ret.op = "IfNotNil"

C30_NilValueWithError ==
    /\ MpCall =>
          /\ fc.err # NoErr => fc.v = Nil
          /\ \A i \in 1..Len(fc.calls) : fc.calls[i].err # NoErr => fc.calls[i].v = Nil
    /\ (ret.op = "Get" /\ ~ret.panicked /\ ret.keys[1] \in DOMAIN r.errors) => ret.v = Nil
====
